---- MODULE Spec2Model ----
(***************************************************************************)
(* Liability measurement engines of the repository:                        *)
(*   direct   core/calculations/measure_unexpired_calculator.py            *)
(*   inward   core/calculations/reinsurance_calculator.py                  *)
(*   outward  core/calculations/reinsurance_outward_calculator.py          *)
(*   claims   core/calculations/unsettled_calculator.py                    *)
(*                                                                         *)
(* Numbers.  A Decimal amount is an integer count of sub-quanta; the       *)
(* 10-digit quantum TEN_DIGITS of the code is SubSteps sub-quanta, so an   *)
(* amount is at the fixed scale exactly when SubSteps divides it and an    *)
(* input carrying more than 10 fractional digits is one it does not        *)
(* divide.  Rates and assumption ratios are rationals n / RateDen.  The    *)
(* quantised service ratio is an integer count of 1/ScaleUnits             *)
(* (ScaleUnits stands for 10^SCALE).  Products and quotients are kept as   *)
(* exact fractions num/den until the code quantises them; the 38-digit     *)
(* working precision of the Decimal context is not a source of error at    *)
(* these magnitudes and is modelled as exact.                              *)
(***************************************************************************)
EXTENDS Integers, Sequences, FiniteSets, TLC

\* ------------------------------------------------------------------ bounds
SubSteps == 2
ScaleUnits == 10
RateDen == 2
MaxMonths == 3

\* --------------------------------------------------------------- rounding
Abs(x) == IF x < 0 THEN -x ELSE x

Sign(x) == IF x < 0 THEN -1 ELSE IF x > 0 THEN 1 ELSE 0

Max2(a, b) == IF a >= b THEN a ELSE b

Min2(a, b) == IF a <= b THEN a ELSE b

\* floor of n/d for d > 0 (the integer division of Integers is the floor)
FloorDiv(n, d) == n \div d

RoundFloorMutant(n, d) == FloorDiv(n, d)

\* decimal.ROUND_HALF_UP of n/d (d > 0) to an integer: nearest, ties away from 0
RoundHalfUp(n, d) ==
    IF n >= 0 THEN (2 * n + d) \div (2 * d)
              ELSE -((2 * (-n) + d) \div (2 * d))

\* decimal.ROUND_HALF_EVEN of n/d (d > 0): nearest, ties to the even neighbour
RoundHalfEven(n, d) ==
    LET q == FloorDiv(n, d)
        r == n - q * d
    IN  IF 2 * r < d THEN q
        ELSE IF 2 * r > d THEN q + 1
        ELSE IF q % 2 = 0 THEN q ELSE q + 1

\* x.quantize(TEN_DIGITS, rounding=ROUND_HALF_UP) of the value n/d sub-quanta
Quantize(n, d) == SubSteps * RoundHalfUp(n, d * SubSteps)

\* x.quantize(Decimal('1e-10')) with no rounding argument: the rounding mode is
\* the one of the thread's decimal context at the time of the call
QuantizeCtx(n, d, rounding) ==
    IF rounding = "ROUND_HALF_UP"
    THEN SubSteps * RoundHalfUp(n, d * SubSteps)
    ELSE SubSteps * RoundHalfEven(n, d * SubSteps)

AtScale(v) == v % SubSteps = 0

\* --------------------------------------------------------------- calendar
\* A month 'YYYYMM' is the ordinal 12 * YYYY + (MM - 1): the string order of
\* well-formed keys is the order of the ordinals.
Month(y, mm) == 12 * y + (mm - 1)

YearOf(m) == m \div 12

MonthNo(m) == (m % 12) + 1

IsLeap(y) == (y % 4 = 0 /\ y % 100 # 0) \/ y % 400 = 0

DaysInMonth(m) ==
    LET mm == MonthNo(m)
    IN  IF mm = 2 THEN (IF IsLeap(YearOf(m)) THEN 29 ELSE 28)
        ELSE IF mm \in {4, 6, 9, 11} THEN 30 ELSE 31

\* the cut-over month '202412' and the first months after it
CutoffMonth == Month(2024, 12)

\* datetime.date(2024, 1, 1): contracts confirmed before it are "old" policies
EraStartMonth == Month(2024, 1)

BaseMonth == Month(2023, 1)

RECURSIVE DaysBefore(_)
DaysBefore(m) == IF m <= BaseMonth THEN 0 ELSE DaysBefore(m - 1) + DaysInMonth(m - 1)

\* a date is [m |-> month ordinal, d |-> day of month]; DayOrd is its day number
MkDate(m, d) == [m |-> m, d |-> d]

DayOrd(dt) == DaysBefore(dt.m) + dt.d

MonthStart(m) == MkDate(m, 1)

MonthEnd(m) == MkDate(m, DaysInMonth(m))

DateLE(a, b) == DayOrd(a) <= DayOrd(b)

DateMin(a, b) == IF DateLE(a, b) THEN a ELSE b

DateMax(a, b) == IF DateLE(a, b) THEN b ELSE a

\* ------------------------------------------------------------- dictionaries
\* d.get(k, default)
Get(map, k, default) == IF k \in DOMAIN map THEN map[k] ELSE default

RECURSIVE SumOver(_, _)
\* sum(map[k] for k in keys)
SumOver(map, keys) ==
    IF keys = {} THEN 0
    ELSE LET k == CHOOSE x \in keys : TRUE
         IN  map[k] + SumOver(map, keys \ {k})

EmptyMap == [k \in {} |-> 0]

\* ======================================================================
\* Direct engine: measure_unexpired_calculator.py
\* ======================================================================

\* _calculate_effective_days_in_period: min(val_month_end, end_date)
EffectiveEndDate(val_month, end_date) == DateMin(MonthEnd(val_month), end_date)

\* the keys of period_map: every month whose first day is <= effective_end_date,
\* starting with the month of ini_confirm
PeriodMonths(ini_confirm, val_month, end_date) ==
    ini_confirm.m .. EffectiveEndDate(val_month, end_date).m

\* period_map[month]: days of the month inside [start_date, effective_end_date]
EffectiveDays(m, start_date, val_month, end_date) ==
    LET overlap_start == DateMax(MonthStart(m), start_date)
        overlap_end == DateMin(MonthEnd(m), EffectiveEndDate(val_month, end_date))
    IN  IF DateLE(overlap_start, overlap_end)
        THEN DayOrd(overlap_end) - DayOrd(overlap_start) + 1
        ELSE 0

IsOldPolicyInclusiveMutant(ini_confirm) == ini_confirm.m <= EraStartMonth

\* is_old_policy = ini_confirm_date < datetime.date(2024, 1, 1)
IsOldPolicy(ini_confirm) == ini_confirm.m < EraStartMonth

\* actuarial_iacf = (premium_cny * acquisition_expense_ratio).quantize(...)
ActuarialIacf(premium_cny, acquisition_expense_ratio) ==
    Quantize(premium_cny * acquisition_expense_ratio, RateDen)

\* historical_iacf: every follow and non-follow amount keyed <= '202412'
HistoricalIacf(iacf_fol_map, iacf_unfol_map) ==
    SumOver(iacf_fol_map, {k \in DOMAIN iacf_fol_map : k <= CutoffMonth})
    + SumOver(iacf_unfol_map, {k \in DOMAIN iacf_unfol_map : k <= CutoffMonth})

\* future_iacf_*_by_month: the entries keyed after '202412'
FutureByMonth(map) ==
    [k \in {x \in DOMAIN map : x > CutoffMonth} |-> map[k]]

\* the rolling variables before the first iteration (lines 128-180)
DirectRollInit(c) ==
    LET old == IsOldPolicy(c.ini_confirm)
        act == IF old
               THEN ActuarialIacf(c.premium_cny,
                        c.assumptions_map[c.ini_confirm.m].acquisition_expense_ratio)
               ELSE 0
        hist == HistoricalIacf(c.iacf_fol_map, c.iacf_unfol_map)
    IN  [ actuarial_iacf |-> act,
          historical_iacf |-> hist,
          total_iacf_amt |-> act + hist,
          cumulative_received_premiums |-> 0,
          cumulative_premiums |-> 0,
          cumulative_iacf |-> 0,
          cumulative_ifie |-> 0,
          opening_balance |-> 0,
          served_days |-> 0,
          month_counter |-> 0,
          month |-> c.ini_confirm.m - 1,
          prev_opening_balance |-> 0,
          dis_rate |-> 0,
          premium_cashflow |-> 0,
          iacf_cashflow_current |-> 0,
          unfol_new |-> 0,
          unfol_base_add |-> 0,
          warnings |-> 0,
          cumulative_proportion |-> 0,
          current_ifie |-> 0,
          current_premiums |-> 0,
          current_iacf |-> 0,
          closing_balance |-> 0 ]

\* non-follow increment of a month after '202412' (lines 221-247): the
\* increment booked, the amount added to the amortisation base and the number
\* of warning notes written
UnfolIncrementNoFloorMutant(month, unfol_by_month) ==
    LET cur == Get(unfol_by_month, month, 0)
        prev == Get(unfol_by_month, month - 1, 0)
        new == IF month = CutoffMonth + 1 THEN cur ELSE cur - prev
    IN  [ new |-> new, base_add |-> IF new > 0 THEN new ELSE 0, warnings |-> 0 ]

UnfolIncrementBaseUnflooredMutant(month, unfol_by_month) ==
    LET cur == Get(unfol_by_month, month, 0)
        prev == Get(unfol_by_month, month - 1, 0)
    IN  IF month = CutoffMonth + 1
        THEN [ new |-> cur, base_add |-> cur, warnings |-> 0 ]
        ELSE IF cur - prev > 0
             THEN [ new |-> cur - prev, base_add |-> cur - prev, warnings |-> 0 ]
             ELSE IF cur - prev < 0
                  THEN [ new |-> 0, base_add |-> cur - prev, warnings |-> 1 ]
                  ELSE [ new |-> 0, base_add |-> 0, warnings |-> 0 ]

UnfolIncrement(month, unfol_by_month) ==
    LET cur == Get(unfol_by_month, month, 0)
        prev == Get(unfol_by_month, month - 1, 0)
    IN  IF month = CutoffMonth + 1
        THEN [ new |-> cur, base_add |-> IF cur > 0 THEN cur ELSE 0, warnings |-> 0 ]
        ELSE IF cur - prev > 0
             THEN [ new |-> cur - prev, base_add |-> cur - prev, warnings |-> 0 ]
             ELSE IF cur - prev < 0
                  THEN [ new |-> 0, base_add |-> 0, warnings |-> 1 ]
                  ELSE [ new |-> 0, base_add |-> 0, warnings |-> 0 ]

\* cumulative_proportion = (served_days / term_days).quantize(...) if term_days > 0
DirectProportion(served_days, term_days) ==
    IF term_days > 0 THEN RoundHalfUp(served_days * ScaleUnits, term_days) ELSE 0

DirectLockedRateIteratedMonthMutant(discount_rates_map, ini_month, month_counter) ==
    Get(Get(discount_rates_map, ini_month + month_counter - 1, EmptyMap), month_counter, 0)

\* locked rate of the iteration: discount_rates_map.get(ini_month, {}).get(month_counter, 0)
DirectLockedRate(discount_rates_map, ini_month, month_counter) ==
    Get(Get(discount_rates_map, ini_month, EmptyMap), month_counter, 0)

RecognisedIncrementReversedMutant(target_num, den, cumulative) ==
    Quantize(cumulative * den - target_num, den)

\* the amount recognised in the month: (target - cumulative).quantize(...),
\* the target given as target_num / den (lines 276 and 284)
RecognisedIncrement(target_num, den, cumulative) ==
    Quantize(target_num - cumulative * den, den)

\* a closing balance that does not carry the opening balance forward
DirectClosingBalanceNoCarryMutant(opening_balance, premium_cashflow, iacf_cashflow_current, current_ifie, current_premiums, current_iacf) ==
    premium_cashflow - iacf_cashflow_current + current_ifie - current_premiums
    + current_iacf

\* closing_balance = opening_balance + premium_cashflow - iacf_cashflow_current
\*                   + current_ifie - current_premiums + current_iacf (line 291)
DirectClosingBalance(opening_balance, premium_cashflow, iacf_cashflow_current, current_ifie, current_premiums, current_iacf) ==
    opening_balance + premium_cashflow - iacf_cashflow_current + current_ifie
    - current_premiums + current_iacf

\* one pass of the for loop of _perform_monthly_rolling (lines 183-297)
DirectStep(c, s, month) ==
    LET month_counter == s.month_counter + 1
        days_in_month == EffectiveDays(month, c.start_date, c.val_month, c.end_date)
        dis_rate == DirectLockedRate(c.discount_rates_map, c.ini_confirm.m, month_counter)
        first == IF month_counter = 1
                 THEN s.historical_iacf
                      + (IF IsOldPolicy(c.ini_confirm) THEN s.actuarial_iacf ELSE 0)
                 ELSE 0
        post == month > CutoffMonth
        fol == IF post THEN Get(FutureByMonth(c.iacf_fol_map), month, 0) ELSE 0
        inc == IF post THEN UnfolIncrement(month, FutureByMonth(c.iacf_unfol_map))
               ELSE [ new |-> 0, base_add |-> 0, warnings |-> 0 ]
        total_iacf_amt == s.total_iacf_amt + inc.base_add
        iacf_cashflow_current == first + fol + inc.new
        premium_cashflow ==
            IF month_counter = 1
            THEN SumOver(c.paid_premiums_map,
                         {k \in DOMAIN c.paid_premiums_map : k <= month})
            ELSE Get(c.paid_premiums_map, month, 0)
        cumulative_received_premiums == s.cumulative_received_premiums + premium_cashflow
        served_days == s.served_days + days_in_month
        cumulative_proportion == DirectProportion(served_days, c.term)
        opening_balance_ifie == Quantize(s.opening_balance * dis_rate, RateDen)
        premium_cashflow_ifie == Quantize(premium_cashflow * dis_rate, RateDen * 2)
        iacf_cashflow_ifie == Quantize(iacf_cashflow_current * dis_rate, RateDen * 2)
        current_ifie == opening_balance_ifie + premium_cashflow_ifie - iacf_cashflow_ifie
        cumulative_ifie == s.cumulative_ifie + current_ifie
        current_premiums ==
            RecognisedIncrement((c.premium_cny + cumulative_ifie) * cumulative_proportion,
                                ScaleUnits, s.cumulative_premiums)
        cumulative_premiums == s.cumulative_premiums + current_premiums
        current_iacf ==
            RecognisedIncrement(total_iacf_amt * cumulative_proportion, ScaleUnits,
                                s.cumulative_iacf)
        cumulative_iacf == s.cumulative_iacf + current_iacf
        closing_balance ==
            DirectClosingBalance(s.opening_balance, premium_cashflow, iacf_cashflow_current,
                                 current_ifie, current_premiums, current_iacf)
    IN  [ actuarial_iacf |-> s.actuarial_iacf,
          historical_iacf |-> s.historical_iacf,
          total_iacf_amt |-> total_iacf_amt,
          cumulative_received_premiums |-> cumulative_received_premiums,
          cumulative_premiums |-> cumulative_premiums,
          cumulative_iacf |-> cumulative_iacf,
          cumulative_ifie |-> cumulative_ifie,
          opening_balance |-> closing_balance,
          served_days |-> served_days,
          month_counter |-> month_counter,
          \* the values of the iteration, as written to month_log
          month |-> month,
          prev_opening_balance |-> s.opening_balance,
          dis_rate |-> dis_rate,
          premium_cashflow |-> premium_cashflow,
          iacf_cashflow_current |-> iacf_cashflow_current,
          unfol_new |-> inc.new,
          unfol_base_add |-> inc.base_add,
          warnings |-> inc.warnings,
          cumulative_proportion |-> cumulative_proportion,
          current_ifie |-> current_ifie,
          current_premiums |-> current_premiums,
          current_iacf |-> current_iacf,
          closing_balance |-> closing_balance ]

\* ------------------------------------------------------ present values
\* A claim pattern is a sequence of weights w / RateDen.  A rate curve maps a
\* term (1, 2, ...) to a rate n / RateDen with n > -RateDen.

RECURSIVE PrefixSum(_, _)
\* prefix[i] of _get_pv_loss: the sum of the first i entries of seq
PrefixSum(seq, i) == IF i = 0 THEN 0 ELSE PrefixSum(seq, i - 1) + seq[i]

\* claim_factor_applied: [(avg_amt * factor).quantize(...) for factor in claim_factor]
ClaimFactorApplied(amt, n, claim_factor) ==
    LET avg_amt == Quantize(amt, n)
    IN  [i \in 1 .. Len(claim_factor) |-> Quantize(avg_amt * claim_factor[i], RateDen)]

\* result[j] (0-based j) of _get_pv_loss: prefix[end + 1] - prefix[start]
LossCashFlows(amt, n, claim_factor) ==
    LET applied == ClaimFactorApplied(amt, n, claim_factor)
        L == Len(applied)
        k == n - 1
    IN  [jj \in 1 .. (L + n - 1) |->
            LET j == jj - 1
                start == Max2(0, j - k)
                end == Min2(j, L - 1)
            IN  PrefixSum(applied, end + 1) - PrefixSum(applied, start)]

RECURSIVE DiscountNum(_, _)
\* numerator and denominator of product = (1 + rate_1) * ... * (1 + rate_i)
DiscountNum(rates, i) ==
    IF i = 0 THEN 1 ELSE DiscountNum(rates, i - 1) * (RateDen + Get(rates, i, 0))

RECURSIVE DiscountDen(_)
DiscountDen(i) == IF i = 0 THEN 1 ELSE DiscountDen(i - 1) * RateDen

\* discounted_amt = (cash_flow * (1 / product)).quantize(...)
Discounted(cash_flow, rates, i) ==
    Quantize(cash_flow * DiscountDen(i), DiscountNum(rates, i))

RECURSIVE SumDiscounted(_, _, _)
SumDiscounted(flows, rates, i) ==
    IF i = 0 THEN 0
    ELSE SumDiscounted(flows, rates, i - 1) + Discounted(flows[i], rates, i)

\* _get_pv_loss: the returned pv_loss; it raises where
\* pd.DataFrame(details).set_index(...) has no row to index (KeyError)
GetPvLoss(amt, n, claim_factor, months_rate_map) ==
    IF amt = 0 \/ n <= 0 THEN [raised |-> FALSE, pv |-> 0]
    ELSE IF Len(claim_factor) + n - 1 = 0 THEN [raised |-> TRUE, pv |-> 0]
    ELSE [raised |-> FALSE,
          pv |-> SumDiscounted(LossCashFlows(amt, n, claim_factor), months_rate_map,
                               Len(claim_factor) + n - 1)]

\* _get_pv_maintenance
GetPvMaintenance(amt, n, months_rate_map) ==
    IF amt = 0 \/ n <= 0 THEN 0
    ELSE SumDiscounted([i \in 1 .. n |-> Quantize(amt, n)], months_rate_map, n)

\* ------------------------------------------------------ direct loss test
\* an assumption set is usable when it exists and its loss ratio is not 0
AssumptionValid(assumptions_map, m) ==
    m \in DOMAIN assumptions_map /\ assumptions_map[m].loss_ratio # 0

\* loss = max(0, net) if premium_cny >= 0 else min(0, net)
SignedLossMaxOnlyMutant(premium, net) == Max2(0, net)

SignedLoss(premium, net) ==
    IF premium >= 0 THEN Max2(0, net) ELSE Min2(0, net)

\* _perform_loss_test (lines 389-465)
DirectLossTest(c, s) ==
    LET use == IF AssumptionValid(c.assumptions_map, c.val_month) THEN c.val_month
               ELSE c.val_month - 1
    IN  IF ~AssumptionValid(c.assumptions_map, use)
        THEN [ raised |-> TRUE ]
        ELSE
        LET a == c.assumptions_map[use]
            closing_balance == s.opening_balance
            unexpired_premium ==
                IF c.term > 0
                THEN Quantize(c.premium_cny * (c.term - s.served_days), c.term)
                ELSE 0
            future_receivable_premiums == c.premium_cny - s.cumulative_received_premiums
            future_loss ==
                Quantize(unexpired_premium * a.loss_ratio
                           * (RateDen + a.indirect_claims_expense_ratio),
                         RateDen * RateDen)
            future_maintenance ==
                Quantize(unexpired_premium * a.maintenance_expense_ratio, RateDen)
            total_months == c.end_date.m - c.ini_confirm.m + 1
            remaining_months == total_months - s.month_counter
            val_month_rates == Get(c.discount_rates_map, c.val_month, EmptyMap)
            pvl == GetPvLoss(future_loss, remaining_months, c.claim_factors,
                             val_month_rates)
            pv_future_loss == pvl.pv
            pv_future_maintenance ==
                GetPvMaintenance(future_maintenance, remaining_months, val_month_rates)
            risk_adjustment ==
                Quantize((pv_future_maintenance + pv_future_loss) * a.ra, RateDen)
            future_cash_flow == pv_future_loss + pv_future_maintenance
                                + risk_adjustment - future_receivable_premiums
            net_future_cash_flow == future_cash_flow - closing_balance
        IN  IF pvl.raised
            THEN [ raised |-> TRUE, future_loss |-> future_loss,
                   remaining_months |-> remaining_months ]
            ELSE [ raised |-> FALSE,
                   assumption_month |-> use,
                   lrc_no_loss_amt |-> closing_balance,
                   lrc_loss_amt |-> SignedLoss(c.premium_cny, net_future_cash_flow),
                   unexpired_premium |-> unexpired_premium,
                   future_loss |-> future_loss,
                   future_maintenance |-> future_maintenance,
                   future_receivable_premiums |-> future_receivable_premiums,
                   remaining_months |-> remaining_months,
                   pv_future_compensation |-> pv_future_loss,
                   pv_future_maintenance |-> pv_future_maintenance,
                   risk_adjustment |-> risk_adjustment,
                   future_cash_flow |-> future_cash_flow ]

\* ======================================================================
\* Reinsurance inward engine: reinsurance_calculator.py
\* ======================================================================

\* build_reinsurance_cost_timeline: premium, commission and brokerage of the
\* measure-prep record are booked to the initial confirm month; the
\* no_iacf_cash_flow of the '202412' row is booked to the initial confirm
\* month, rows after '202412' to their own month, rows before it nowhere.
\* cash_flows_map.get(val_month, {}) reads an absent month as all zero.
InwardCashFlows(c, month) ==
    [ premium |-> IF month = c.ini_confirm.m THEN c.premium ELSE 0,
      commission |-> IF month = c.ini_confirm.m THEN c.commission ELSE 0,
      brokerage |-> IF month = c.ini_confirm.m THEN c.brokerage ELSE 0,
      iacf_unfol |->
          (IF month = c.ini_confirm.m THEN Get(c.no_iacf_cash_flow, CutoffMonth, 0) ELSE 0)
          + (IF month > CutoffMonth THEN Get(c.no_iacf_cash_flow, month, 0) ELSE 0) ]

\* cumulative_iacf_unfol_for_amort (lines 284-294): the '202412' row plus every
\* row after '202412' up to the iterated month
InwardAmortBase(c, month) ==
    Get(c.no_iacf_cash_flow, CutoffMonth, 0)
    + SumOver(c.no_iacf_cash_flow,
              {k \in DOMAIN c.no_iacf_cash_flow : k > CutoffMonth /\ k <= month})

\* elapsed_days and total_days of _calculate_one_month (lines 82-90); the ratio
\* elapsed_days / total_days is used as it is, without quantize
ElapsedDays(val_month, pi_start_date, pi_end_date) ==
    IF DateLE(pi_start_date, MonthEnd(val_month))
    THEN DayOrd(DateMin(MonthEnd(val_month), pi_end_date)) - DayOrd(pi_start_date) + 1
    ELSE 0

TotalDays(pi_start_date, pi_end_date) == DayOrd(pi_end_date) - DayOrd(pi_start_date) + 1

\* amortized_ratio as the fraction num / den (0 / 1 when total_days <= 0)
AmortizedRatio(val_month, pi_start_date, pi_end_date) ==
    IF TotalDays(pi_start_date, pi_end_date) > 0
    THEN [ num |-> ElapsedDays(val_month, pi_start_date, pi_end_date),
           den |-> TotalDays(pi_start_date, pi_end_date) ]
    ELSE [ num |-> 0, den |-> 1 ]

\* the state handed from one month to the next before the first month
InwardRollInit ==
    [ lrc_no_loss_amt |-> 0,
      acc_insurance_revenue |-> 0,
      acc_iacf_unfol_amortization |-> 0,
      acc_ifie |-> 0,
      amortized_ratio |-> [ num |-> 0, den |-> 1 ],
      month_counter |-> 0,
      month |-> 0,
      prev_lrc_no_loss |-> 0,
      monthly_rate |-> 0,
      current_premium_cash_flow |-> 0,
      current_net_premium_cash_flow |-> 0,
      current_iacf_unfol_cash_flow |-> 0,
      total_iacf_unfol |-> 0,
      current_ifie |-> 0,
      current_insurance_revenue |-> 0,
      current_iacf_unfol_amortization |-> 0 ]

\* one pass of the loop of calculate_reinsurance_unexpired_measure (lines
\* 280-336) with its call of _calculate_one_month (lines 19-167); every
\* quantize there is given no rounding argument
InwardStep(c, s, month, rounding) ==
    LET month_counter == s.month_counter + 1
        total_iacf_unfol == InwardAmortBase(c, month)
        monthly_rate ==
            Get(Get(c.discount_rates_map, c.ini_confirm.m, EmptyMap), month_counter, 0)
        cf == InwardCashFlows(c, month)
        net == cf.premium - cf.commission - cf.brokerage
        ratio == AmortizedRatio(month, c.pi_start_date, c.pi_end_date)
        \* prev * rate + net * rate * 0.5 - iacf * rate * 0.5, quantised once
        current_ifie ==
            QuantizeCtx((2 * s.lrc_no_loss_amt + net - cf.iacf_unfol) * monthly_rate,
                        2 * RateDen, rounding)
        acc_ifie == QuantizeCtx(s.acc_ifie + current_ifie, 1, rounding)
        total_net_premium == c.premium - c.commission - c.brokerage
        acc_insurance_revenue ==
            QuantizeCtx((total_net_premium + acc_ifie) * ratio.num, ratio.den, rounding)
        current_insurance_revenue ==
            QuantizeCtx(acc_insurance_revenue - s.acc_insurance_revenue, 1, rounding)
        amort_target == QuantizeCtx(total_iacf_unfol * ratio.num, ratio.den, rounding)
        current_amort ==
            QuantizeCtx(amort_target - s.acc_iacf_unfol_amortization, 1, rounding)
        acc_amort == QuantizeCtx(s.acc_iacf_unfol_amortization + current_amort, 1, rounding)
        lrc_no_loss_amt ==
            QuantizeCtx(s.lrc_no_loss_amt + net - cf.iacf_unfol + current_ifie
                          - current_insurance_revenue + current_amort, 1, rounding)
    IN  [ lrc_no_loss_amt |-> lrc_no_loss_amt,
          acc_insurance_revenue |-> acc_insurance_revenue,
          acc_iacf_unfol_amortization |-> acc_amort,
          acc_ifie |-> acc_ifie,
          amortized_ratio |-> ratio,
          month_counter |-> month_counter,
          \* the values of the iteration, as written to the month's log
          month |-> month,
          prev_lrc_no_loss |-> s.lrc_no_loss_amt,
          monthly_rate |-> monthly_rate,
          current_premium_cash_flow |-> cf.premium,
          current_net_premium_cash_flow |-> net,
          current_iacf_unfol_cash_flow |-> cf.iacf_unfol,
          total_iacf_unfol |-> total_iacf_unfol,
          current_ifie |-> current_ifie,
          current_insurance_revenue |-> current_insurance_revenue,
          current_iacf_unfol_amortization |-> current_amort ]

\* D(assumptions.get(key, 0)): the stored value, 0 for a missing key; a NULL
\* of the table makes the Decimal arithmetic of the test raise
NullValue == -RateDen

AssumptionField(a, key) == IF key \in DOMAIN a THEN a[key] ELSE 0

\* _perform_onerous_test (lines 459-535)
InwardOnerousTest(c, s, rounding) ==
    LET a == Get(c.assumptions_map, c.val_month, EmptyMap)
        loss_ratio == AssumptionField(a, "loss_ratio")
        indirect == AssumptionField(a, "indirect_claims_expense_ratio")
        maintenance == AssumptionField(a, "maintenance_expense_ratio")
        ra_ratio == AssumptionField(a, "risk_adjustment_ratio")
        ratio == s.amortized_ratio
        unexpired_premium ==
            QuantizeCtx(c.premium * (ratio.den - ratio.num), ratio.den, rounding)
        future_loss ==
            QuantizeCtx(unexpired_premium * loss_ratio * (RateDen + indirect),
                        RateDen * RateDen, rounding)
        future_maintenance ==
            QuantizeCtx(unexpired_premium * maintenance, RateDen, rounding)
        remaining_months == Max2(0, c.pi_end_date.m - c.val_month)
        onerous_rate_curve == Get(c.discount_rates_map, c.val_month, EmptyMap)
        pvl == GetPvLoss(future_loss, remaining_months, c.claim_factors,
                         onerous_rate_curve)
        pv_future_loss == pvl.pv
        pv_future_maintenance ==
            GetPvMaintenance(future_maintenance, remaining_months, onerous_rate_curve)
        risk_adjustment ==
            QuantizeCtx((pv_future_maintenance + pv_future_loss) * ra_ratio,
                        RateDen, rounding)
        net_future_cash_flow ==
            QuantizeCtx(pv_future_loss + pv_future_maintenance + risk_adjustment,
                        1, rounding)
        loss_test_balance ==
            QuantizeCtx(net_future_cash_flow - s.lrc_no_loss_amt, 1, rounding)
    IN  IF NullValue \in {loss_ratio, indirect, maintenance, ra_ratio}
        THEN [ raised |-> TRUE ]
        ELSE IF pvl.raised
        THEN [ raised |-> TRUE, future_loss |-> future_loss,
               remaining_months |-> remaining_months ]
        ELSE [ raised |-> FALSE,
               lrc_loss_amt |-> Max2(0, loss_test_balance),
               unexpired_premium |-> unexpired_premium,
               future_loss |-> future_loss,
               future_maintenance |-> future_maintenance,
               remaining_months |-> remaining_months,
               pv_future_compensation |-> pv_future_loss,
               pv_future_maintenance |-> pv_future_maintenance,
               risk_adjustment |-> risk_adjustment,
               net_future_cash_flow |-> net_future_cash_flow ]

\* ======================================================================
\* Reinsurance outward engine: reinsurance_outward_calculator.py
\* ======================================================================

\* initial_booking_month: the month of max(sign_date, ini_confirm)
InitialBookingMonth(c) == DateMax(c.sign_date, c.ini_confirm).m

\* static_data['total_investment_component'] = (premium * invest_prop).quantize(...)
TotalInvestmentComponent(c, rounding) ==
    QuantizeCtx(c.premium * c.invest_prop, RateDen, rounding)

OutwardRollInit ==
    [ lrc_no_loss_amt |-> 0,
      acc_insurance_revenue |-> 0,
      acc_investment_amortization |-> 0,
      acc_income_before_splitting |-> 0,
      acc_ifie |-> 0,
      month |-> 0,
      term_month |-> 0,
      prev_lrc_no_loss |-> 0,
      monthly_rate |-> 0,
      current_net_premium_cash_flow |-> 0,
      current_ifie |-> 0,
      current_insurance_revenue |-> 0,
      current_investment_amortization |-> 0,
      loss_found |-> FALSE,
      loss_component |-> 0 ]

\* get_underlying_loss_amount and lines 452-474: the loss of the underlying
\* business for the month times the share rate (a count of 1/RateDen
\* sub-quanta), 0 when the lookup finds nothing or fails
OutwardLossComponent(c, month) ==
    IF month \in DOMAIN c.underlying_loss
    THEN c.underlying_loss[month] * c.share_rate
    ELSE 0

\* one pass of the loop of calculate_reinsurance_outward_unexpired_measure
\* (lines 427-497) with its call of _calculate_one_month_outward (36-185)
OutwardStep(c, s, month, rounding) ==
    LET booked == month = InitialBookingMonth(c)
                  /\ (c.premium # 0 \/ c.commission # 0)
        net == IF booked THEN c.premium - c.commission ELSE 0
        term_month == month - c.ini_confirm.m + 1
        ratio == AmortizedRatio(month, c.pi_start_date, c.pi_end_date)
        acc_investment_amortization ==
            QuantizeCtx(TotalInvestmentComponent(c, rounding) * ratio.num,
                        ratio.den, rounding)
        current_investment_amortization ==
            QuantizeCtx(acc_investment_amortization - s.acc_investment_amortization,
                        1, rounding)
        monthly_rate ==
            Get(Get(c.discount_rates_map, c.ini_confirm.m, EmptyMap), term_month, 0)
        current_ifie ==
            QuantizeCtx((2 * s.lrc_no_loss_amt + net) * monthly_rate,
                        2 * RateDen, rounding)
        acc_ifie == QuantizeCtx(s.acc_ifie + current_ifie, 1, rounding)
        total_net_premium == c.premium - c.commission
        acc_income_before_splitting ==
            QuantizeCtx((total_net_premium + acc_ifie) * ratio.num, ratio.den, rounding)
        acc_insurance_revenue ==
            QuantizeCtx(acc_income_before_splitting - acc_investment_amortization,
                        1, rounding)
        current_insurance_revenue ==
            QuantizeCtx(acc_insurance_revenue - s.acc_insurance_revenue, 1, rounding)
        lrc_no_loss_amt ==
            QuantizeCtx(s.lrc_no_loss_amt + net + current_ifie
                          - current_insurance_revenue
                          - current_investment_amortization, 1, rounding)
    IN  [ lrc_no_loss_amt |-> lrc_no_loss_amt,
          acc_insurance_revenue |-> acc_insurance_revenue,
          acc_investment_amortization |-> acc_investment_amortization,
          acc_income_before_splitting |-> acc_income_before_splitting,
          acc_ifie |-> acc_ifie,
          month |-> month,
          term_month |-> term_month,
          prev_lrc_no_loss |-> s.lrc_no_loss_amt,
          monthly_rate |-> monthly_rate,
          current_net_premium_cash_flow |-> net,
          current_ifie |-> current_ifie,
          current_insurance_revenue |-> current_insurance_revenue,
          current_investment_amortization |-> current_investment_amortization,
          loss_found |-> month \in DOMAIN c.underlying_loss,
          loss_component |-> OutwardLossComponent(c, month) ]

\* ======================================================================
\* Incurred claims: unsettled_calculator.py (float arithmetic, kept here as
\* exact fractions num / den)
\* ======================================================================

Frac(n, d) == [ num |-> n, den |-> d ]

RECURSIVE Gcd(_, _)
Gcd(a, b) == IF b = 0 THEN a ELSE Gcd(b, a % b)

\* the same number in lowest terms
Reduce(f) ==
    LET g == Gcd(Abs(f.num), Abs(f.den))
    IN  IF g = 0 THEN f ELSE Frac(f.num \div g, f.den \div g)

FracAdd(a, b) ==
    LET x == Reduce(a)
        y == Reduce(b)
    IN  Reduce(Frac(x.num * y.den + y.num * x.den, x.den * y.den))

\* f * n / d
FracScale(f, n, d) == Reduce(Frac(Reduce(f).num * n, Reduce(f).den * d))

FracEq(a, b) == a.num * b.den = b.num * a.den

\* a - b
FracSub(a, b) == FracAdd(a, Frac(-b.num, b.den))

\* claim_pattern[months_passed:]
RemainingPattern(claim_pattern, months_passed) ==
    LET from == IF months_passed >= 0 THEN months_passed
                ELSE Max2(0, Len(claim_pattern) + months_passed)
    IN  IF from >= Len(claim_pattern) THEN << >>
        ELSE SubSeq(claim_pattern, from + 1, Len(claim_pattern))

RECURSIVE SeqSum(_)
SeqSum(seq) == IF seq = << >> THEN 0 ELSE Head(seq) + SeqSum(Tail(seq))

RECURSIVE TermDiscountNum(_, _, _)
\* numerator of (1 + rate[start]) * ... * (1 + rate[start + period - 1])
TermDiscountNum(rates, start, period) ==
    IF period = 0 THEN 1
    ELSE TermDiscountNum(rates, start, period - 1)
         * (RateDen + Get(rates, start + period - 1, 0))

RECURSIVE UnsettledPvSum(_, _, _, _, _)
\* total_pv after the first i periods of the loop (lines 56-83)
UnsettledPvSum(loss_amount, remaining, rates, start_rate_term, i) ==
    IF i = 0 THEN Frac(0, 1)
    ELSE LET dn == TermDiscountNum(rates, start_rate_term, i)
             pv == IF dn = 0 THEN Frac(0, 1)
                   ELSE Frac(loss_amount * remaining[i] * DiscountDen(i),
                             SeqSum(remaining) * dn)
         IN  FracAdd(UnsettledPvSum(loss_amount, remaining, rates,
                                    start_rate_term, i - 1), pv)

\* calculate_unsettled_pv (lines 8-96): the total present value
CalculateUnsettledPv(loss_amount, claim_pattern, discount_rates, accident_month, evaluation_month, use_current_rate_curve) ==
    LET months_passed == evaluation_month - accident_month + 1
        remaining == RemainingPattern(claim_pattern, months_passed)
        start_rate_term == IF use_current_rate_curve THEN 1 ELSE months_passed
    IN  IF loss_amount = 0 \/ claim_pattern = << >> \/ DOMAIN discount_rates = {}
        THEN Frac(0, 1)
        ELSE IF SeqSum(remaining) = 0 THEN Frac(0, 1)
        ELSE UnsettledPvSum(loss_amount, remaining, discount_rates,
                            start_rate_term, Len(remaining))

\* ======================================================================
\* Incurred claims, the ledger script 未决代码/前海未决分录版V2-直保.py
\* ======================================================================
\* The script reads a pattern of 60 monthly columns; PatternColumns stands for
\* the 60.  A weight is a count of 1/RateDen.

PatternColumns == 3

\* unpaid_ratio = max(0, 1 - sum(pattern[:min(months_passed, 60)])), as a
\* count of 1/RateDen
UnpaidRatio(pattern, months_passed) ==
    Max2(0, RateDen - PrefixSum(pattern, Max2(0, Min2(months_passed, PatternColumns))))

\* discount_with_eval_curve and discount_to_dynamic_eval of a payment that
\* falls `period` months after the evaluation month: amount divided by
\* (1 + rate[start]) ... (1 + rate[start + period - 1])
LegacyDiscount(amount, rates, start, period) ==
    Frac(amount * DiscountDen(period), TermDiscountNum(rates, start, period))

RECURSIVE LegacyWeighted(_, _, _, _, _, _)
\* the loop over future_month in range(months_passed, 60) (lines 240-258);
\* fm is the 1-based column, so column fm is pattern[fm - 1] of the script
LegacyWeighted(value, pattern, months_passed, rates, start, fm) ==
    IF fm <= months_passed THEN Frac(0, 1)
    ELSE LET rest == LegacyWeighted(value, pattern, months_passed, rates, start, fm - 1)
         IN  IF pattern[fm] <= 0 THEN rest
             ELSE LET d == LegacyDiscount(value * pattern[fm], rates, start,
                                          fm - months_passed)
                  IN  FracAdd(rest,
                              Frac(d.num, d.den * UnpaidRatio(pattern, months_passed)))

\* pv1_base / pv3_base of process_row_all_types (lines 157-267) for one
\* amount column; start is 1 on the evaluation curve and months_passed on the
\* accident curve
LegacyPv(value, pattern, rates, accident_month, evaluation_month, start_is_one) ==
    LET months_passed == evaluation_month - accident_month + 1
        start == IF start_is_one THEN 1 ELSE months_passed
    IN  IF value = 0 THEN Frac(0, 1)
        ELSE IF UnpaidRatio(pattern, months_passed) = 0
        THEN LegacyDiscount(value, rates, start, 1)
        ELSE LegacyWeighted(value, pattern, months_passed, rates, start,
                            PatternColumns)

\* ======================================================================
\* The measurement run as a state machine
\* ======================================================================
\* variant   the engine that runs: "direct", "inward", "outward", "claims",
\*           "ledger", or "process" for the interpreter process as a whole
\* inp       the fetched inputs of the run
\* ctx       the decimal context of the process (getcontext())
\* modules   the calculator modules the process has imported (sys.modules)
\* pc        the position of the run
\* st        the rolling variables carried from month to month
\* log       the per-month results produced so far
\* out       what the run hands back to its caller
\* hist      the runs the process has completed, in order
VARIABLES variant, inp, ctx, modules, pc, st, log, out, hist

vars == << variant, inp, ctx, modules, pc, st, log, out, hist >>

NoState == [ month |-> 0 ]

NoOut == [ kind |-> "none" ]

\* decimal.DefaultContext: prec 28, ROUND_HALF_EVEN
DefaultContext == [ prec |-> 28, rounding |-> "ROUND_HALF_EVEN" ]

\* measure_unexpired_calculator.py line 12: getcontext().prec = 38
DirectModuleContext(cx) == [ cx EXCEPT !.prec = 38 ]

\* reinsurance_calculator.py lines 14-15: prec = 38, rounding = 'ROUND_HALF_UP'
InwardModuleContext(cx) == [ prec |-> 38, rounding |-> "ROUND_HALF_UP" ]

\* ---------------------------------------------------------- direct inputs
DirectIniMonths == { Month(2023, 12), Month(2024, 1), CutoffMonth, CutoffMonth + 1 }

ValOffsets == 0 .. (MaxMonths - 1)

Premiums == { -8, 9, 12 }

GoodAssumption ==
    [ loss_ratio |-> 1, indirect_claims_expense_ratio |-> 1,
      maintenance_expense_ratio |-> 1, ra |-> 1, acquisition_expense_ratio |-> 1 ]

HeavyAssumption ==
    [ loss_ratio |-> 3, indirect_claims_expense_ratio |-> 0,
      maintenance_expense_ratio |-> 1, ra |-> 0, acquisition_expense_ratio |-> 0 ]

ZeroLossAssumption == [ GoodAssumption EXCEPT !.loss_ratio = 0 ]

\* assumption tables by option, for initial month i and target month v
DirectAssumptions(opt, i, v) ==
    CASE opt = "all" -> [m \in (i .. v) \cup {i} |-> GoodAssumption]
      [] opt = "heavy" -> [m \in (i .. v) \cup {i} |-> HeavyAssumption]
      [] opt = "fallback" -> [m \in {i, v - 1} |-> GoodAssumption]
      [] opt = "invalid" ->
            [m \in {i, v} |-> IF m = v THEN ZeroLossAssumption ELSE GoodAssumption]
      [] opt = "none" -> EmptyMap

PaidPremiumMaps(i) ==
    { EmptyMap,
      (i :> 12),
      (i - 1 :> 3) @@ (i :> 4) @@ (i + 1 :> 5),
      (i + 1 :> -8) }

FolMaps ==
    { EmptyMap,
      (CutoffMonth :> 1) @@ (CutoffMonth + 1 :> 2) @@ (CutoffMonth + 2 :> -1) }

\* cumulative non-follow amounts by month
UnfolMaps ==
    { EmptyMap,
      (CutoffMonth :> 3),
      (CutoffMonth + 1 :> -3) @@ (CutoffMonth + 2 :> 4),
      (CutoffMonth + 1 :> 5) @@ (CutoffMonth + 2 :> 2) @@ (CutoffMonth + 3 :> 6),
      (CutoffMonth :> 2) @@ (CutoffMonth + 2 :> 3) }

\* rate tables: no curve at all; a curve with an explicit 0; a negative rate
\* and a gap at term 2; a target month whose curve differs from the curve of
\* the initial month
RateMaps(i, v) ==
    { EmptyMap,
      [m \in {i, v} |-> (1 :> 1) @@ (2 :> 0)],
      [m \in {i, v} |-> (1 :> -1) @@ (3 :> 1)],
      [m \in {i, v} |-> IF m = i THEN (1 :> 1) @@ (2 :> 0)
                                 ELSE (1 :> 0) @@ (2 :> 1) @@ (3 :> 1)] }

ClaimFactorLists == { << >>, << 2 >>, << 1, 1 >> }

\* required_months of calculate_unexpired_measure (lines 27-31): the months
\* from the initial confirm month to val_month, and val_month itself
RequiredMonths(i, v) == (i .. v) \cup { v }

\* the rows a fetch by month list returns: WHERE val_month IN (required_months)
FetchedFor(map, months) == [ m \in DOMAIN map \cap months |-> map[m] ]

DirectContract(i, off, sd, ed, prem, paid, fol, unfol, aopt, rates, cf) ==
    [ ini_confirm |-> MkDate(i, 1),
      start_date |-> sd,
      end_date |-> ed,
      val_month |-> i + off,
      term |-> DayOrd(ed) - DayOrd(sd) + 1,
      premium_cny |-> prem,
      assumptions_map |-> FetchedFor(DirectAssumptions(aopt, i, i + off),
                                     RequiredMonths(i, i + off)),
      discount_rates_map |-> FetchedFor(rates, RequiredMonths(i, i + off)),
      paid_premiums_map |-> paid,
      iacf_fol_map |-> fol,
      iacf_unfol_map |-> unfol,
      claim_factors |-> cf ]

\* contracts that exercise the monthly rolling
DirectRollingContract(c) ==
    \E i \in DirectIniMonths, off \in ValOffsets :
      \E sd \in { MkDate(i, 1), MkDate(i, 16) },
         ed \in { MkDate(i + 1, 15), MonthEnd(i + MaxMonths) },
         prem \in Premiums, paid \in PaidPremiumMaps(i), fol \in FolMaps,
         unfol \in UnfolMaps, rates \in RateMaps(i, i + off) :
        c = DirectContract(i, off, sd, ed, prem, paid, fol, unfol, "all", rates,
                           << 1, 1 >>)

\* contracts that exercise the loss test
DirectLossContract(c) ==
    \E i \in { Month(2023, 12), CutoffMonth + 1 }, off \in {-1} \cup ValOffsets :
      \E ed \in { MkDate(i + 1, 15), MonthEnd(i + MaxMonths) },
         prem \in Premiums, paid \in { EmptyMap, (i :> 12) },
         aopt \in { "all", "heavy", "fallback", "invalid", "none" },
         rates \in RateMaps(i, i + off), cf \in ClaimFactorLists :
        c = DirectContract(i, off, MkDate(i, 1), ed, prem, paid, EmptyMap, EmptyMap,
                           aopt, rates, cf)

\* contracts whose coverage starts before the month of the initial confirm date
DirectEarlyStartContract(c) ==
    \E i \in DirectIniMonths, off \in ValOffsets :
      \E ed \in { MkDate(i + 1, 15), MonthEnd(i + MaxMonths) },
         prem \in Premiums, rates \in RateMaps(i, i + off) :
        c = DirectContract(i, off, MkDate(i - 1, 20), ed, prem, (i :> 12), EmptyMap,
                           EmptyMap, "all", rates, << 1, 1 >>)

\* fully paid contracts confirmed at or after the cutover whose costs are all
\* booked after 202412: a follow cost in 202501, cumulative non-follow figures
\* that never decrease and have no entry for 202502
DirectPostCutoverContract(c) ==
    \E i \in { CutoffMonth, CutoffMonth + 1 }, off \in ValOffsets :
      \E ed \in { MkDate(i + 1, 15), MonthEnd(i + MaxMonths) },
         fol \in { EmptyMap, (CutoffMonth + 1 :> 2) },
         unfol \in { EmptyMap, (CutoffMonth + 1 :> 2) @@ (CutoffMonth + 3 :> 4) },
         rates \in RateMaps(i, i + off) :
        c = DirectContract(i, off, MkDate(i, 1), ed, 12, (i :> 12), fol, unfol, "all",
                           rates, << 1, 1 >>)

InitDirect ==
    /\ variant = "direct"
    /\ (DirectRollingContract(inp) \/ DirectLossContract(inp)
        \/ DirectEarlyStartContract(inp)
        \/ DirectPostCutoverContract(inp))
    /\ ctx = DirectModuleContext(DefaultContext)
    /\ modules = { "direct" }
    /\ pc = "begin"
    /\ st = NoState
    /\ log = << >>
    /\ out = NoOut
    /\ hist = << >>

\* --------------------------------------------------------- direct actions
\* _perform_monthly_rolling up to the loop (lines 111-181): the assumption of
\* the initial confirm month must exist, else ValueError
DirectBegin ==
    /\ variant = "direct" /\ pc = "begin"
    /\ IF inp.ini_confirm.m \in DOMAIN inp.assumptions_map
       THEN /\ pc' = "rolling"
            /\ st' = DirectRollInit(inp)
            /\ out' = out
       ELSE /\ pc' = "error"
            /\ st' = st
            /\ out' = [ kind |-> "error", reason |-> "assumption" ]
    /\ UNCHANGED << variant, inp, ctx, modules, log, hist >>

\* one iteration of the loop over sorted(period_map.keys())
DirectIterate ==
    /\ variant = "direct" /\ pc = "rolling"
    /\ st.month + 1 \in PeriodMonths(inp.ini_confirm, inp.val_month, inp.end_date)
    /\ st' = DirectStep(inp, st, st.month + 1)
    /\ log' = Append(log, st')
    /\ UNCHANGED << variant, inp, ctx, modules, pc, out, hist >>

\* what calculate_unexpired_measure returns after _perform_loss_test
DirectFinish(c, s) ==
    LET t == DirectLossTest(c, s)
    IN  IF t.raised THEN [ kind |-> "error", reason |-> "loss_test" ]
        ELSE [ kind |-> "results", loss_computed |-> TRUE,
               lrc_loss_amt |-> t.lrc_loss_amt, test |-> t ]

\* the loop is exhausted: _perform_loss_test and the return (lines 56-69)
DirectLoss ==
    /\ variant = "direct" /\ pc = "rolling"
    /\ st.month + 1 \notin PeriodMonths(inp.ini_confirm, inp.val_month, inp.end_date)
    /\ out' = DirectFinish(inp, st)
    /\ pc' = IF out'.kind = "error" THEN "error" ELSE "done"
    /\ UNCHANGED << variant, inp, ctx, modules, st, log, hist >>

NextDirect == DirectBegin \/ DirectIterate \/ DirectLoss

SpecDirect == InitDirect /\ [][NextDirect]_vars

\* ---------------------------------------------------------- inward inputs
InwardAssumption ==
    [ loss_ratio |-> 1, indirect_claims_expense_ratio |-> 1,
      maintenance_expense_ratio |-> 1, risk_adjustment_ratio |-> 1 ]

InwardAssumptions(opt, i, v) ==
    CASE opt = "all" -> [m \in {i, v} |-> InwardAssumption]
      [] opt = "heavy" ->
            [m \in {i, v} |-> [ InwardAssumption EXCEPT !.loss_ratio = 3 ]]
      [] opt = "null" ->
            [m \in {i, v} |-> [ InwardAssumption EXCEPT !.loss_ratio = NullValue ]]
      [] opt = "fallback" -> [m \in {i, v - 1} |-> InwardAssumption]
      [] opt = "invalid" ->
            [m \in {i, v} |-> IF m = v THEN [ InwardAssumption EXCEPT !.loss_ratio = 0 ]
                                        ELSE InwardAssumption]
      [] opt = "none" -> EmptyMap

\* no_iacf_cash_flow of the measurement records by val_month
NoIacfMaps ==
    { EmptyMap,
      (CutoffMonth :> 3) @@ (CutoffMonth + 2 :> -1),
      (CutoffMonth - 1 :> 5) @@ (CutoffMonth + 1 :> 2) }

InwardContract(i, off, sd, ed, prem, comm, brok, iacf, aopt, rates, cf) ==
    [ ini_confirm |-> MkDate(i, 1),
      val_month |-> i + off,
      pi_start_date |-> sd,
      pi_end_date |-> ed,
      premium |-> prem,
      commission |-> comm,
      brokerage |-> brok,
      no_iacf_cash_flow |-> iacf,
      assumptions_map |-> InwardAssumptions(aopt, i, i + off),
      discount_rates_map |-> rates,
      claim_factors |-> cf ]

InwardRollingContract(c) ==
    \E i \in { CutoffMonth - 1, CutoffMonth + 1 }, off \in ValOffsets :
      \E sd \in { MkDate(i, 1), MkDate(i, 16) },
         ed \in { MkDate(i + 1, 15), MonthEnd(i + MaxMonths) },
         prem \in Premiums, fees \in { << 0, 0 >>, << 3, 1 >> },
         iacf \in NoIacfMaps, rates \in RateMaps(i, i + off) :
        c = InwardContract(i, off, sd, ed, prem, fees[1], fees[2], iacf, "all",
                           rates, << 1, 1 >>)

InwardLossContract(c) ==
    \E i \in { CutoffMonth + 1 }, off \in {-1} \cup ValOffsets :
      \E ed \in { MkDate(i + 1, 15), MonthEnd(i + MaxMonths) },
         prem \in Premiums,
         aopt \in { "all", "heavy", "null", "fallback", "invalid", "none" },
         rates \in RateMaps(i, i + off), cf \in ClaimFactorLists :
        c = InwardContract(i, off, MkDate(i, 1), ed, prem, 0, 0, EmptyMap, aopt,
                           rates, cf)

InitInward ==
    /\ variant = "inward"
    /\ (InwardRollingContract(inp) \/ InwardLossContract(inp))
    /\ ctx = InwardModuleContext(DefaultContext)
    /\ modules = { "inward" }
    /\ pc = "begin"
    /\ st = NoState
    /\ log = << >>
    /\ out = NoOut
    /\ hist = << >>

\* --------------------------------------------------------- inward actions
\* falsy locked_in_rate_curve: no curve for the month, or an empty one
NoCurve(discount_rates_map, m) ==
    m \notin DOMAIN discount_rates_map \/ DOMAIN discount_rates_map[m] = {}

\* the failure return of calculate_reinsurance_unexpired_measure before the
\* loop: an empty months_to_calculate makes months_to_calculate[0] raise
\* (line 231); a falsy locked curve raises (lines 271-278).  "" when the loop
\* is entered.
InwardAbort(c) ==
    IF c.ini_confirm.m > c.val_month THEN "timeline"
    ELSE IF NoCurve(c.discount_rates_map, c.ini_confirm.m) THEN "locked_curve"
    ELSE ""

InwardBegin ==
    /\ variant = "inward" /\ pc = "begin"
    /\ IF InwardAbort(inp) = ""
       THEN /\ pc' = "rolling"
            /\ st' = [ InwardRollInit EXCEPT !.month = inp.ini_confirm.m - 1 ]
            /\ out' = out
       ELSE /\ pc' = "error"
            /\ st' = st
            /\ out' = [ kind |-> "error", reason |-> InwardAbort(inp) ]
    /\ UNCHANGED << variant, inp, ctx, modules, log, hist >>

\* one pass of the loop over months_to_calculate
InwardIterate ==
    /\ variant = "inward" /\ pc = "rolling"
    /\ st.month < inp.val_month
    /\ st' = InwardStep(inp, st, st.month + 1, ctx.rounding)
    /\ log' = Append(log, st')
    /\ UNCHANGED << variant, inp, ctx, modules, pc, out, hist >>

\* lines 345-402: the onerous test inside try/except; an exception leaves the
\* 0.0 that _calculate_one_month wrote as lrc_loss_amt and the results are
\* returned all the same
InwardFinish(c, s, rounding) ==
    LET t == InwardOnerousTest(c, s, rounding)
    IN  IF t.raised
        THEN [ kind |-> "results", loss_computed |-> FALSE, lrc_loss_amt |-> 0,
               test |-> t ]
        ELSE [ kind |-> "results", loss_computed |-> TRUE,
               lrc_loss_amt |-> t.lrc_loss_amt, test |-> t ]

InwardOnerous ==
    /\ variant = "inward" /\ pc = "rolling"
    /\ st.month >= inp.val_month
    /\ out' = InwardFinish(inp, st, ctx.rounding)
    /\ pc' = "done"
    /\ UNCHANGED << variant, inp, ctx, modules, st, log, hist >>

NextInward == InwardBegin \/ InwardIterate \/ InwardOnerous

\* --------------------------------------------------------- outward inputs
\* underlying loss amounts found by get_underlying_loss_amount, by month
UnderlyingLossMaps(i, v) ==
    { EmptyMap,
      [m \in i .. v |-> 4],
      (i :> 6) }

OutwardContract(i, sign, off, sd, ed, prem, comm, ip, sr, ul, rates) ==
    [ ini_confirm |-> MkDate(i, 1),
      sign_date |-> sign,
      val_month |-> i + off,
      pi_start_date |-> sd,
      pi_end_date |-> ed,
      premium |-> prem,
      commission |-> comm,
      invest_prop |-> ip,
      share_rate |-> sr,
      underlying_loss |-> ul,
      discount_rates_map |-> rates ]

OutwardInput(c) ==
    \E i \in { CutoffMonth }, off \in {-1} \cup ValOffsets :
      \E sign \in { MkDate(i - 1, 20), MkDate(i + 1, 5) },
         sd \in { MkDate(i, 1), MkDate(i, 16) },
         ed \in { MkDate(i + 1, 15), MonthEnd(i + MaxMonths) },
         prem \in Premiums, comm \in { 0, 3 }, ip \in { 0, 1 },
         ul \in UnderlyingLossMaps(i, i + off), rates \in RateMaps(i, i + off) :
        c = OutwardContract(i, sign, off, sd, ed, prem, comm, ip, 1, ul, rates)

\* the outward module leaves the context as it finds it: the default one, or
\* the one reinsurance_calculator.py set when it was imported earlier
InitOutward ==
    /\ variant = "outward"
    /\ OutwardInput(inp)
    /\ \/ ctx = DefaultContext /\ modules = { "outward" }
       \/ ctx = InwardModuleContext(DefaultContext)
          /\ modules = { "inward", "outward" }
    /\ pc = "begin"
    /\ st = NoState
    /\ log = << >>
    /\ out = NoOut
    /\ hist = << >>

\* -------------------------------------------------------- outward actions
\* the failure return before the loop: start month after the target month
\* (lines 343-344), falsy locked curve of the original ini_confirm month
\* (lines 358-382)
OutwardAbort(c) ==
    IF InitialBookingMonth(c) > c.val_month THEN "timeline"
    ELSE IF NoCurve(c.discount_rates_map, c.ini_confirm.m) THEN "locked_curve"
    ELSE ""

OutwardBegin ==
    /\ variant = "outward" /\ pc = "begin"
    /\ IF OutwardAbort(inp) = ""
       THEN /\ pc' = "rolling"
            /\ st' = [ OutwardRollInit EXCEPT !.month = InitialBookingMonth(inp) - 1 ]
            /\ out' = out
       ELSE /\ pc' = "error"
            /\ st' = st
            /\ out' = [ kind |-> "error", reason |-> OutwardAbort(inp) ]
    /\ UNCHANGED << variant, inp, ctx, modules, log, hist >>

OutwardIterate ==
    /\ variant = "outward" /\ pc = "rolling"
    /\ st.month < inp.val_month
    /\ st' = OutwardStep(inp, st, st.month + 1, ctx.rounding)
    /\ log' = Append(log, st')
    /\ UNCHANGED << variant, inp, ctx, modules, pc, out, hist >>

\* lines 499-508: the results are returned with the loss_component of the
\* last month, whether its lookup found a loss or fell back to 0
OutwardFinish(s) ==
    [ kind |-> "results", loss_computed |-> s.loss_found,
      lrc_loss_amt |-> s.loss_component ]

OutwardReturn ==
    /\ variant = "outward" /\ pc = "rolling"
    /\ st.month >= inp.val_month
    /\ out' = OutwardFinish(st)
    /\ pc' = "done"
    /\ UNCHANGED << variant, inp, ctx, modules, st, log, hist >>

NextOutward == OutwardBegin \/ OutwardIterate \/ OutwardReturn

\* ------------------------------------------------ incurred-claims inputs
UnsettledAmounts == { 0, 6, -4 }

\* paid ratios by development month, in 1/RateDen: complete patterns (they sum
\* to 1) of n months
RECURSIVE CompletePatterns(_, _)
CompletePatterns(n, total) ==
    IF n = 0 THEN (IF total = 0 THEN { << >> } ELSE {})
    ELSE UNION { { << w >> \o p : p \in CompletePatterns(n - 1, total - w) } :
                 w \in 0 .. total }

\* rows of the pattern table of one class, ordered by month_id: no row, a
\* complete pattern, or a pattern whose weights sum to less than 1
ClaimPatterns ==
    { << >> } \cup UNION { CompletePatterns(n, total) : n \in 1 .. PatternColumns, total \in 0 .. RateDen }

\* the pattern columns of the ledger script: a complete pattern, a pattern
\* whose weights sum to less than 1, or the [0] * 60 of a class without pattern
LedgerPatterns ==
    UNION { CompletePatterns(PatternColumns, total) : total \in 0 .. RateDen }

\* rate curves by valuation month: none; the same curve for both months; one
\* curve per month
UnsettledRateTables(a, e) ==
    { EmptyMap,
      [ m \in { a, e } |-> (1 :> 1) @@ (2 :> 0) ],
      (a :> ((2 :> 1) @@ (3 :> -1))) @@ (e :> (1 :> -1)) }

RiskAdjustments == { 0, 1 }

UnsettledRecord(amount, pattern, rates, a, e, ra, last) ==
    [ amount |-> amount,
      claim_pattern |-> pattern,
      rates |-> rates,
      accident_month |-> a,
      evaluation_month |-> e,
      ra |-> ra,
      last |-> last ]

UnsettledInput(c, patterns, lasts) ==
    \E amount \in UnsettledAmounts, pattern \in patterns,
       k \in 0 .. PatternColumns, ra \in RiskAdjustments, last \in lasts :
      \E rates \in UnsettledRateTables(CutoffMonth - 1, CutoffMonth - 1 + k) :
        c = UnsettledRecord(amount, pattern, rates, CutoffMonth - 1,
                            CutoffMonth - 1 + k, ra, last)

\* the row of measure_cx_unsettled for the unit and the month before the
\* evaluation month, figures of the one amount type: no row, or a row
NoLastRow ==
    [ found |-> FALSE, current |-> Frac(0, 1), accident |-> Frac(0, 1),
      amt |-> Frac(0, 1) ]

LastPeriodRows ==
    { NoLastRow,
      [ found |-> TRUE, current |-> Frac(5, 1), accident |-> Frac(3, 1),
        amt |-> Frac(7, 2) ],
      [ found |-> TRUE, current |-> Frac(-2, 1), accident |-> Frac(1, 1),
        amt |-> Frac(1, 1) ] }

InitUnsettled ==
    /\ variant = "claims"
    /\ UnsettledInput(inp, ClaimPatterns, LastPeriodRows)
    /\ ctx = DefaultContext
    /\ modules = { "unsettled" }
    /\ pc = "begin"
    /\ st = NoState
    /\ log = << >>
    /\ out = NoOut
    /\ hist = << >>

InitLedger ==
    /\ variant = "ledger"
    /\ UnsettledInput(inp, LedgerPatterns, { NoLastRow })
    /\ ctx = DefaultContext
    /\ modules = {}
    /\ pc = "begin"
    /\ st = NoState
    /\ log = << >>
    /\ out = NoOut
    /\ hist = << >>

\* ----------------------------------------------- incurred-claims actions
NoPv == [ kind |-> "results", computed |-> FALSE,
          pv1 |-> Frac(0, 1), pv3 |-> Frac(0, 1),
          pv1_ra |-> Frac(0, 1), pv3_ra |-> Frac(0, 1) ]

\* calculate_direct_unsettled_measure, the loop body of one amount type
\* (lines 188-228)
MeasureUnsettledResult(c) ==
    LET current_rates_dict == Get(c.rates, c.evaluation_month, EmptyMap)
        accident_rates_dict == Get(c.rates, c.accident_month, EmptyMap)
        pv1_bel == CalculateUnsettledPv(c.amount, c.claim_pattern, current_rates_dict,
                                        c.accident_month, c.evaluation_month, TRUE)
        pv3_bel == CalculateUnsettledPv(c.amount, c.claim_pattern, accident_rates_dict,
                                        c.accident_month, c.evaluation_month, FALSE)
        months_passed == c.evaluation_month - c.accident_month + 1
        interest_rate == Get(accident_rates_dict, months_passed, 0)
    IN  IF c.amount = 0 THEN NoPv @@ [ amt_ifie_accident |-> Frac(0, 1) ]
        ELSE [ kind |-> "results", computed |-> TRUE,
               pv1 |-> pv1_bel, pv3 |-> pv3_bel,
               pv1_ra |-> FracScale(pv1_bel, c.ra, RateDen),
               pv3_ra |-> FracScale(pv3_bel, c.ra, RateDen),
               amt_ifie_accident |-> FracScale(pv3_bel, RateDen + interest_rate, RateDen) ]

\* get_last_period_results: the defaults of 0.0 where the query has no row
GetLastPeriodResults(row) ==
    IF ~row.found
    THEN [ pv_last_current |-> Frac(0, 1), pv_last_accident |-> Frac(0, 1),
           pv_last_amt |-> Frac(0, 1) ]
    ELSE [ pv_last_current |-> row.current, pv_last_accident |-> row.accident,
           pv_last_amt |-> row.amt ]

\* oci_change computed against the accreted prior PV3
AccountingMovementsOciOnAccretedMutant(current_pv1, last_pv1, current_pv3, last_pv3, pv5_total) ==
    [ paid_claim_change |-> FracSub(current_pv1, last_pv1),
      service_fee_change |-> FracSub(current_pv3, pv5_total),
      paid_claim_ifie |-> FracSub(pv5_total, last_pv3),
      oci_change |-> FracSub(FracSub(current_pv1, last_pv1),
                             FracSub(current_pv3, pv5_total)) ]

\* the four movements of calculate_direct_unsettled_measure (lines 247-250)
AccountingMovements(current_pv1, last_pv1, current_pv3, last_pv3, pv5_total) ==
    [ paid_claim_change |-> FracSub(current_pv1, last_pv1),
      service_fee_change |-> FracSub(current_pv3, pv5_total),
      paid_claim_ifie |-> FracSub(pv5_total, last_pv3),
      oci_change |-> FracSub(FracSub(current_pv1, last_pv1),
                             FracSub(current_pv3, last_pv3)) ]

\* calculate_direct_unsettled_measure: the results of the amount type, then
\* the prior-period results and the accounting movements (lines 231-252);
\* current_pv1 and current_pv3 are BEL + RA, 0 where the amount was skipped
DirectUnsettledMeasure(c) ==
    LET r == MeasureUnsettledResult(c)
        last_results == GetLastPeriodResults(c.last)
        current_pv1 == FracAdd(r.pv1, r.pv1_ra)
        current_pv3 == FracAdd(r.pv3, r.pv3_ra)
    IN  r @@ AccountingMovements(current_pv1, last_results.pv_last_current,
                                 current_pv3, last_results.pv_last_accident,
                                 last_results.pv_last_amt)

MeasureUnsettled ==
    /\ variant = "claims" /\ pc = "begin"
    /\ out' = DirectUnsettledMeasure(inp)
    /\ pc' = "done"
    /\ UNCHANGED << variant, inp, ctx, modules, st, log, hist >>

\* process_row_all_types, one amount column (lines 157-267)
ProcessRowResult(c) ==
    LET eval_curve == Get(c.rates, c.evaluation_month, EmptyMap)
        acc_curve == Get(c.rates, c.accident_month, EmptyMap)
        pv1_base == LegacyPv(c.amount, c.claim_pattern, eval_curve,
                             c.accident_month, c.evaluation_month, TRUE)
        pv3_base == LegacyPv(c.amount, c.claim_pattern, acc_curve,
                             c.accident_month, c.evaluation_month, FALSE)
    IN  IF c.amount = 0 THEN NoPv
        ELSE [ kind |-> "results", computed |-> TRUE,
               pv1 |-> pv1_base, pv3 |-> pv3_base,
               pv1_ra |-> FracScale(pv1_base, c.ra, RateDen),
               pv3_ra |-> FracScale(pv3_base, c.ra, RateDen) ]

ProcessRow ==
    /\ variant = "ledger" /\ pc = "begin"
    /\ out' = ProcessRowResult(inp)
    /\ pc' = "done"
    /\ UNCHANGED << variant, inp, ctx, modules, st, log, hist >>

InitClaims == InitUnsettled \/ InitLedger

NextClaims == MeasureUnsettled \/ ProcessRow

SpecClaims == InitClaims /\ [][NextClaims]_vars

\* ======================================================================
\* Data fetchers: src/core/data_fetcher
\* ======================================================================

\* ------------------------------------------------ discount rate loaders
\* the most rows the table conf_measure_month_disrate holds
MaxRows == 3

\* a row of conf_measure_month_disrate
RateRows ==
    [ val_month : { CutoffMonth, CutoffMonth + 1 }, term_month : { 1, 2 },
      forward_disrate_value : { 1, 2 } ]

\* the orders a query may return rows in: the permutations of the positions
Orderings(n) == { p \in [1 .. n -> 1 .. n] : \A a, b \in 1 .. n : p[a] = p[b] => a = b }

\* ORDER BY term_month
ByTermMonth(r) ==
    \A a, b \in 1 .. Len(r) : a < b => r[a].term_month <= r[b].term_month

\* ORDER BY val_month, term_month
ByValMonthTermMonth(r) ==
    \A a, b \in 1 .. Len(r) : a < b =>
        \/ r[a].val_month < r[b].val_month
        \/ r[a].val_month = r[b].val_month /\ r[a].term_month <= r[b].term_month

\* the ORDER BY clause of a query holds of the rows r; "" is no clause
Ordered(r, order_by) ==
    CASE order_by = "term_month" -> ByTermMonth(r)
      [] order_by = "val_month, term_month" -> ByValMonthTermMonth(r)
      [] OTHER -> TRUE

\* the result sets a SELECT over rows may return: every ordering of the rows
\* that the ORDER BY clause allows
ResultSets(rows, order_by) ==
    { r \in { [k \in 1 .. Len(rows) |-> rows[p[k]]] : p \in Orderings(Len(rows)) } :
        Ordered(r, order_by) }

\* WHERE val_month IN (val_months)
WhereValMonthIn(rows, val_months) ==
    LET in_list(row) == row.val_month \in val_months
    IN  SelectSeq(rows, in_list)

\* df.drop_duplicates(subset=['val_month', 'term_month'], keep='first')
DropDuplicates(df) ==
    LET kept == { i \in 1 .. Len(df) :
                    \A j \in 1 .. (i - 1) :
                        ~(df[j].val_month = df[i].val_month
                          /\ df[j].term_month = df[i].term_month) }
        RECURSIVE Build(_)
        Build(i) == IF i = 0 THEN << >>
                    ELSE IF i \in kept THEN Append(Build(i - 1), df[i])
                    ELSE Build(i - 1)
    IN  Build(Len(df))

\* df.groupby('val_month').apply(lambda x: x.set_index('term_month')
\* ['forward_disrate_value'].to_dict()).to_dict(): a dict built from the rows
\* in order, so that a later row of the same key replaces an earlier one
GroupToDict(df) ==
    LET months == { df[i].val_month : i \in 1 .. Len(df) }
        terms(m) == { df[i].term_month : i \in { j \in 1 .. Len(df) : df[j].val_month = m } }
        last(m, t) == CHOOSE i \in 1 .. Len(df) :
                          /\ df[i].val_month = m /\ df[i].term_month = t
                          /\ \A j \in (i + 1) .. Len(df) :
                                 ~(df[j].val_month = m /\ df[j].term_month = t)
    IN  [ m \in months |-> [ t \in terms(m) |-> df[last(m, t)].forward_disrate_value ] ]

\* measure_input_data.get_discount_rates_map, from the rows the query returned
GetDiscountRatesMap(df) == GroupToDict(DropDuplicates(df))

\* reinsurance_input_data.get_reinsurance_discount_rates: no drop_duplicates
InputDataGetReinsuranceDiscountRates(df) == GroupToDict(df)

\* discount_rate_data.get_reinsurance_discount_rates
DiscountRateDataGetReinsuranceDiscountRates(df) ==
    IF df = << >> THEN EmptyMap ELSE GroupToDict(DropDuplicates(df))

\* ------------------------------------------------ endorsement lookups
\* Python None as an argument, SQL NULL in a stored row
PyNone == "<None>"

\* the endorsement identifiers passed to the fetchers
CertiNos == { PyNone, "", "NA", "N/A", "NULL", "na", " NA ", "None", "E001" }

\* the certi_no values of the stored rows
StoredCertiNos == { PyNone, "", "NA", "na", "N/A", "NULL", "E001" }

\* str.upper() and SQL UPPER() on the identifiers above
Upper(s) ==
    CASE s = "na" -> "NA"
      [] s = "None" -> "NONE"
      [] OTHER -> s

\* str.strip() on the identifiers above
Strip(s) == IF s = " NA " THEN "NA" ELSE s

\* truthiness of a str | None argument
Truthy(s) == s # PyNone /\ s # ""

\* NULL_EQUIVALENTS of reinsurance_outward_data.py
NULL_EQUIVALENTS == { "", "NA", "N/A", "NONE", "NULL" }

\* the stored rows a condition "certi_no = <value>" selects: NULL equals nothing
RowsEqual(value) == { r \in StoredCertiNos : r # PyNone /\ r = value }

\* measure_input_data.get_measure_source_data (line 13): the branch taken and
\* the certi_no values of the rows its WHERE clause selects
GetMeasureSourceData(certi_no) ==
    IF Truthy(certi_no) /\ certi_no # "NA"
    THEN [ absent |-> FALSE, selected |-> RowsEqual(certi_no) ]
    ELSE [ absent |-> TRUE,
           selected |-> { r \in StoredCertiNos : r = PyNone \/ r = "NA" } ]

\* reinsurance_outward_data._get_certi_no_condition (lines 10-19)
GetCertiNoCondition(certi_no) ==
    IF Truthy(certi_no) /\ Upper(Strip(certi_no)) \notin NULL_EQUIVALENTS
    THEN [ absent |-> FALSE, selected |-> RowsEqual(certi_no) ]
    ELSE [ absent |-> TRUE,
           selected |-> { r \in StoredCertiNos :
                            r = PyNone \/ r = "" \/ Upper(r) = "NA" } ]

\* reinsurance_outward_data.get_reinsurance_outward_contracts (line 25)
GetReinsuranceOutwardContracts(certi_no) ==
    IF Truthy(certi_no) /\ certi_no # "NA"
    THEN [ absent |-> FALSE, selected |-> RowsEqual(certi_no) ]
    ELSE [ absent |-> TRUE,
           selected |-> { r \in StoredCertiNos : r = PyNone \/ r = "NA" } ]

\* contract_data.get_latest_contract_data (lines 12-32)
GetLatestContractData(certi_no) ==
    LET match_empty == \/ certi_no = PyNone
                       \/ Upper(Strip(certi_no)) \in { "", "NA", "N/A", "NULL" }
    IN  IF match_empty
        THEN [ absent |-> TRUE,
               selected |-> { r \in StoredCertiNos :
                                r = PyNone \/ r \in { "", "NA", "N/A" } } ]
        ELSE [ absent |-> FALSE, selected |-> RowsEqual(certi_no) ]

\* ------------------------------------------------------ fetch machine
\* a fetch is a call of one loader on a rate table, or of one lookup with an
\* endorsement identifier
InitRates ==
    /\ variant = "rates"
    /\ \E n \in 0 .. MaxRows : \E rows \in [1 .. n -> RateRows] :
         \E val_months \in { { CutoffMonth }, { CutoffMonth, CutoffMonth + 1 } } :
           inp = [ table |-> rows, val_months |-> val_months ]

InitLookup ==
    /\ variant = "lookup"
    /\ \E c \in CertiNos : inp = [ certi_no |-> c ]

InitFetch ==
    /\ (InitRates \/ InitLookup)
    /\ ctx = DefaultContext
    /\ modules = { "data_fetcher" }
    /\ pc = "begin"
    /\ st = NoState
    /\ log = << >>
    /\ out = NoOut
    /\ hist = << >>

\* what a loader returns for a result set
Loaded(loader, df, rates_map) ==
    [ kind |-> "rates", loader |-> loader, fetched |-> df, rates_map |-> rates_map ]

LoadDirectRates ==
    /\ variant = "rates" /\ pc = "begin"
    /\ \E df \in ResultSets(WhereValMonthIn(inp.table, inp.val_months), "term_month") :
         out' = Loaded("measure_input_data", df, GetDiscountRatesMap(df))
    /\ pc' = "done"
    /\ UNCHANGED << variant, inp, ctx, modules, st, log, hist >>

LoadInwardRates ==
    /\ variant = "rates" /\ pc = "begin"
    /\ \E df \in ResultSets(inp.table, "") :
         out' = Loaded("reinsurance_input_data", df,
                       InputDataGetReinsuranceDiscountRates(df))
    /\ pc' = "done"
    /\ UNCHANGED << variant, inp, ctx, modules, st, log, hist >>

LoadDiagnosedRates ==
    /\ variant = "rates" /\ pc = "begin"
    /\ \E df \in ResultSets(inp.table, "val_month, term_month") :
         out' = Loaded("discount_rate_data", df,
                       DiscountRateDataGetReinsuranceDiscountRates(df))
    /\ pc' = "done"
    /\ UNCHANGED << variant, inp, ctx, modules, st, log, hist >>

\* what a lookup does with the identifier
Looked(fetcher, r) ==
    [ kind |-> "rows", fetcher |-> fetcher, absent |-> r.absent, selected |-> r.selected ]

LookupMeasureSource ==
    /\ variant = "lookup" /\ pc = "begin"
    /\ out' = Looked("get_measure_source_data", GetMeasureSourceData(inp.certi_no))
    /\ pc' = "done"
    /\ UNCHANGED << variant, inp, ctx, modules, st, log, hist >>

LookupCertiNoCondition ==
    /\ variant = "lookup" /\ pc = "begin"
    /\ out' = Looked("_get_certi_no_condition", GetCertiNoCondition(inp.certi_no))
    /\ pc' = "done"
    /\ UNCHANGED << variant, inp, ctx, modules, st, log, hist >>

LookupOutwardContracts ==
    /\ variant = "lookup" /\ pc = "begin"
    /\ out' = Looked("get_reinsurance_outward_contracts",
                     GetReinsuranceOutwardContracts(inp.certi_no))
    /\ pc' = "done"
    /\ UNCHANGED << variant, inp, ctx, modules, st, log, hist >>

LookupLatestContract ==
    /\ variant = "lookup" /\ pc = "begin"
    /\ out' = Looked("get_latest_contract_data", GetLatestContractData(inp.certi_no))
    /\ pc' = "done"
    /\ UNCHANGED << variant, inp, ctx, modules, st, log, hist >>

NextFetch ==
    \/ LoadDirectRates \/ LoadInwardRates \/ LoadDiagnosedRates
    \/ LookupMeasureSource \/ LookupCertiNoCondition
    \/ LookupOutwardContracts \/ LookupLatestContract

SpecFetch == InitFetch /\ [][NextFetch]_vars

\* the three rolling engines
Init == InitDirect \/ InitInward \/ InitOutward

Next == NextDirect \/ NextInward \/ NextOutward

Spec == Init /\ [][Next]_vars

\* ======================================================================
\* Whole runs, and the interpreter process that makes them
\* ======================================================================

RECURSIVE DirectRoll(_, _, _)
DirectRoll(c, s, entries) ==
    IF s.month + 1 \in PeriodMonths(c.ini_confirm, c.val_month, c.end_date)
    THEN LET s2 == DirectStep(c, s, s.month + 1)
         IN  DirectRoll(c, s2, Append(entries, s2))
    ELSE [ log |-> entries, out |-> DirectFinish(c, s) ]

\* calculate_unexpired_measure: the per-month results and what is returned
DirectRun(c) ==
    IF c.ini_confirm.m \in DOMAIN c.assumptions_map
    THEN DirectRoll(c, DirectRollInit(c), << >>)
    ELSE [ log |-> << >>, out |-> [ kind |-> "error", reason |-> "assumption" ] ]

RECURSIVE InwardRoll(_, _, _, _)
InwardRoll(c, s, entries, rounding) ==
    IF s.month < c.val_month
    THEN LET s2 == InwardStep(c, s, s.month + 1, rounding)
         IN  InwardRoll(c, s2, Append(entries, s2), rounding)
    ELSE [ log |-> entries, out |-> InwardFinish(c, s, rounding) ]

\* calculate_reinsurance_unexpired_measure
InwardRun(c, rounding) ==
    IF InwardAbort(c) = ""
    THEN InwardRoll(c, [ InwardRollInit EXCEPT !.month = c.ini_confirm.m - 1 ],
                    << >>, rounding)
    ELSE [ log |-> << >>, out |-> [ kind |-> "error", reason |-> InwardAbort(c) ] ]

RECURSIVE OutwardRoll(_, _, _, _)
OutwardRoll(c, s, entries, rounding) ==
    IF s.month < c.val_month
    THEN LET s2 == OutwardStep(c, s, s.month + 1, rounding)
         IN  OutwardRoll(c, s2, Append(entries, s2), rounding)
    ELSE [ log |-> entries, out |-> OutwardFinish(s) ]

\* calculate_reinsurance_outward_unexpired_measure
OutwardRun(c, rounding) ==
    IF OutwardAbort(c) = ""
    THEN OutwardRoll(c, [ OutwardRollInit EXCEPT !.month = InitialBookingMonth(c) - 1 ],
                     << >>, rounding)
    ELSE [ log |-> << >>, out |-> [ kind |-> "error", reason |-> OutwardAbort(c) ] ]

\* the number of runs one process is followed through
MaxRuns == 2

\* the contracts measured by the process
ProcessCurves == [m \in {CutoffMonth, CutoffMonth + 1} |-> (1 :> 1)]

ProcessDirectInputs ==
    { DirectContract(CutoffMonth, 1, MkDate(CutoffMonth, 1),
                     MkDate(CutoffMonth + 1, 15), prem, paid, EmptyMap, EmptyMap,
                     "all", ProcessCurves, << 1, 1 >>) :
        prem \in Premiums, paid \in PaidPremiumMaps(CutoffMonth) }

ProcessInwardInputs ==
    { InwardContract(CutoffMonth, 1, sd, MkDate(CutoffMonth + 1, 15), prem, 0, 0,
                     EmptyMap, "all", ProcessCurves, << 1, 1 >>) :
        prem \in Premiums, sd \in { MkDate(CutoffMonth, 1), MkDate(CutoffMonth, 16) } }

ProcessOutwardInputs ==
    { OutwardContract(CutoffMonth, MkDate(CutoffMonth - 1, 20), 1, sd,
                      MkDate(CutoffMonth + 1, 15), prem, 0, 1, 1,
                      [m \in {CutoffMonth, CutoffMonth + 1} |-> 4], ProcessCurves) :
        prem \in Premiums, sd \in { MkDate(CutoffMonth, 1), MkDate(CutoffMonth, 16) } }

\* a fresh interpreter: no calculator module imported, the default context
InitProcess ==
    /\ variant = "process"
    /\ inp = [ val_month |-> 0 ]
    /\ ctx = DefaultContext
    /\ modules = { }
    /\ pc = "idle"
    /\ st = NoState
    /\ log = << >>
    /\ out = NoOut
    /\ hist = << >>

\* the first import of a calculator module runs its top-level statements
\* (pages/1_未到期_直保.py line 14)
ImportDirect ==
    /\ variant = "process" /\ "direct" \notin modules
    /\ modules' = modules \cup { "direct" }
    /\ ctx' = DirectModuleContext(ctx)
    /\ UNCHANGED << variant, inp, pc, st, log, out, hist >>

\* pages/2_未到期_再保分入.py line 9
ImportInward ==
    /\ variant = "process" /\ "inward" \notin modules
    /\ modules' = modules \cup { "inward" }
    /\ ctx' = InwardModuleContext(ctx)
    /\ UNCHANGED << variant, inp, pc, st, log, out, hist >>

\* pages/3_未到期_再保分出.py line 14: the module sets nothing in the context
ImportOutward ==
    /\ variant = "process" /\ "outward" \notin modules
    /\ modules' = modules \cup { "outward" }
    /\ UNCHANGED << variant, inp, ctx, pc, st, log, out, hist >>

\* one whole measurement run of an imported engine, under the context the
\* process has at that time
MeasureDirect ==
    /\ variant = "process" /\ "direct" \in modules /\ Len(hist) < MaxRuns
    /\ \E c \in ProcessDirectInputs :
          hist' = Append(hist, [ variant |-> "direct", inp |-> c,
                                 result |-> DirectRun(c) ])
    /\ UNCHANGED << variant, inp, ctx, modules, pc, st, log, out >>

MeasureInward ==
    /\ variant = "process" /\ "inward" \in modules /\ Len(hist) < MaxRuns
    /\ \E c \in ProcessInwardInputs :
          hist' = Append(hist, [ variant |-> "inward", inp |-> c,
                                 result |-> InwardRun(c, ctx.rounding) ])
    /\ UNCHANGED << variant, inp, ctx, modules, pc, st, log, out >>

MeasureOutward ==
    /\ variant = "process" /\ "outward" \in modules /\ Len(hist) < MaxRuns
    /\ \E c \in ProcessOutwardInputs :
          hist' = Append(hist, [ variant |-> "outward", inp |-> c,
                                 result |-> OutwardRun(c, ctx.rounding) ])
    /\ UNCHANGED << variant, inp, ctx, modules, pc, st, log, out >>

NextProcess ==
    \/ ImportDirect \/ ImportInward \/ ImportOutward
    \/ MeasureDirect \/ MeasureInward \/ MeasureOutward

SpecProcess == InitProcess /\ [][NextProcess]_vars

\* ======================================================================
\* Properties
\* ======================================================================

\* the balance identity of one logged month of the direct engine
DirectIdentity(e) ==
    e.closing_balance = e.prev_opening_balance + e.premium_cashflow
                        - e.iacf_cashflow_current + e.current_ifie
                        - e.current_premiums + e.current_iacf

\* the balance identity of one logged month of the inward engine
InwardIdentity(e) ==
    e.lrc_no_loss_amt = e.prev_lrc_no_loss + e.current_net_premium_cash_flow
                        - e.current_iacf_unfol_cash_flow + e.current_ifie
                        - e.current_insurance_revenue
                        + e.current_iacf_unfol_amortization

\* C1: in every month iterated by the direct and the inward engine the closing
\* balance equals opening + net premium cash flow - acquisition cash flow
\* + interest - revenue + amortization exactly, and the closing balance is a
\* value at the fixed scale of 10 fractional digits, whatever the input
\* cash-flow amounts.
C1_ClosingIdentityAtScale ==
    /\ variant = "direct" =>
         \A k \in DOMAIN log :
            DirectIdentity(log[k]) /\ AtScale(log[k].closing_balance)
    /\ variant = "inward" =>
         \A k \in DOMAIN log :
            InwardIdentity(log[k]) /\ AtScale(log[k].lrc_no_loss_amt)

\* total premium of the contract of the run
TotalPremium == IF variant = "direct" THEN inp.premium_cny ELSE inp.premium

\* the run has returned results whose loss amount the onerous test computed
LossTested ==
    variant \in { "direct", "inward" } /\ pc = "done" /\ out.kind = "results"
    /\ out.loss_computed

\* C2: the loss amount returned by the onerous test (direct _perform_loss_test,
\* inward _perform_onerous_test) is >= 0 whenever total premium >= 0 and <= 0
\* whenever total premium < 0.
C2_LossSignFollowsPremium ==
    LossTested =>
        /\ TotalPremium >= 0 => out.lrc_loss_amt >= 0
        /\ TotalPremium < 0 => out.lrc_loss_amt <= 0

RECURSIVE ReceivedPremium(_, _)
\* the premium cash flows of the first k logged months of an inward run
ReceivedPremium(entries, k) ==
    IF k = 0 THEN 0
    ELSE ReceivedPremium(entries, k - 1) + entries[k].current_premium_cash_flow

\* cumulative received premium and final closing balance of the finished run
CumulativeReceived ==
    IF variant = "direct" THEN st.cumulative_received_premiums
    ELSE ReceivedPremium(log, Len(log))

FinalClosing ==
    IF variant = "direct" THEN st.opening_balance ELSE st.lrc_no_loss_amt

\* C3: the onerous test computes net future cash flow = PV_claim
\* + PV_maintenance + risk adjustment - (total premium - cumulative received
\* premium), both PVs discounted on the curve of the target month, and the
\* loss amount is max(0, net future cash flow - final closing balance) for
\* total premium >= 0 and min(0, ...) otherwise, in the direct and the inward
\* engine alike.
C3_OnerousTestFormula ==
    LossTested =>
        LET t == out.test
            curve == Get(inp.discount_rates_map, inp.val_month, EmptyMap)
            net == t.pv_future_compensation + t.pv_future_maintenance
                   + t.risk_adjustment - (TotalPremium - CumulativeReceived)
        IN  /\ t.pv_future_compensation =
                 GetPvLoss(t.future_loss, t.remaining_months, inp.claim_factors,
                           curve).pv
            /\ t.pv_future_maintenance =
                 GetPvMaintenance(t.future_maintenance, t.remaining_months, curve)
            /\ out.lrc_loss_amt =
                 IF TotalPremium >= 0 THEN Max2(0, net - FinalClosing)
                 ELSE Min2(0, net - FinalClosing)

\* C4: the output of a measurement run is a function of the run's inputs
\* only: two runs of the same engine on identical inputs give identical
\* outputs, whatever other runs were made or engines were loaded before in the
\* same process; no process-wide state (the decimal context) carries over.
C4_RunIsFunctionOfInputs ==
    \A a \in DOMAIN hist, b \in DOMAIN hist :
        (hist[a].variant = hist[b].variant /\ hist[a].inp = hist[b].inp)
            => hist[a].result = hist[b].result

\* the state a logged month started from: the month logged before it, or the
\* rolling variables before the first iteration
Opening(k) ==
    IF k > 1 THEN log[k - 1]
    ELSE IF variant = "direct" THEN DirectRollInit(inp)
    ELSE IF variant = "inward" THEN InwardRollInit
    ELSE OutwardRollInit

\* the service ratio num / den rounded half-up to the scale, in 1/ScaleUnits
RoundedRatio(ratio) == RoundHalfUp(ratio.num * ScaleUnits, ratio.den)

\* every named intermediate of a direct month is the half-up rounding, at its
\* own step, of the value the step computes
DirectRoundedAtEachStep(e, o) ==
    /\ e.cumulative_proportion = RoundHalfUp(e.served_days * ScaleUnits, inp.term)
    /\ e.current_ifie =
          Quantize(o.opening_balance * e.dis_rate, RateDen)
          + Quantize(e.premium_cashflow * e.dis_rate, 2 * RateDen)
          - Quantize(e.iacf_cashflow_current * e.dis_rate, 2 * RateDen)
    /\ e.cumulative_premiums =
          Quantize((inp.premium_cny + e.cumulative_ifie) * e.cumulative_proportion,
                   ScaleUnits)
    /\ e.cumulative_iacf =
          Quantize(e.total_iacf_amt * e.cumulative_proportion, ScaleUnits)
    /\ e.closing_balance =
          Quantize(o.opening_balance + e.premium_cashflow - e.iacf_cashflow_current
                     + e.current_ifie - e.current_premiums + e.current_iacf, 1)

InwardRoundedAtEachStep(e, o) ==
    /\ e.amortized_ratio.num * ScaleUnits
          = RoundedRatio(e.amortized_ratio) * e.amortized_ratio.den
    /\ e.current_ifie =
          Quantize(o.lrc_no_loss_amt * e.monthly_rate, RateDen)
          + Quantize(e.current_net_premium_cash_flow * e.monthly_rate, 2 * RateDen)
          - Quantize(e.current_iacf_unfol_cash_flow * e.monthly_rate, 2 * RateDen)
    /\ e.acc_insurance_revenue =
          Quantize((inp.premium - inp.commission - inp.brokerage + e.acc_ifie)
                     * RoundedRatio(e.amortized_ratio), ScaleUnits)
    /\ e.acc_iacf_unfol_amortization =
          Quantize(e.total_iacf_unfol * RoundedRatio(e.amortized_ratio), ScaleUnits)
    /\ e.lrc_no_loss_amt =
          Quantize(o.lrc_no_loss_amt + e.current_net_premium_cash_flow
                     - e.current_iacf_unfol_cash_flow + e.current_ifie
                     - e.current_insurance_revenue
                     + e.current_iacf_unfol_amortization, 1)

OutwardRoundedAtEachStep(e, o) ==
    LET ratio == AmortizedRatio(e.month, inp.pi_start_date, inp.pi_end_date)
    IN  /\ ratio.num * ScaleUnits = RoundedRatio(ratio) * ratio.den
        /\ e.current_ifie =
              Quantize(o.lrc_no_loss_amt * e.monthly_rate, RateDen)
              + Quantize(e.current_net_premium_cash_flow * e.monthly_rate, 2 * RateDen)
        /\ e.acc_income_before_splitting =
              Quantize((inp.premium - inp.commission + e.acc_ifie)
                         * RoundedRatio(ratio), ScaleUnits)
        /\ e.acc_investment_amortization =
              Quantize(Quantize(inp.premium * inp.invest_prop, RateDen)
                         * RoundedRatio(ratio), ScaleUnits)
        /\ e.lrc_no_loss_amt =
              Quantize(o.lrc_no_loss_amt + e.current_net_premium_cash_flow
                         + e.current_ifie - e.current_insurance_revenue
                         - e.current_investment_amortization, 1)

\* C5: every named intermediate of the rolling engine (service ratio, each
\* interest term, cumulative revenue target, cumulative amortization target,
\* closing balance) is rounded half-up to 10 fractional digits at the step
\* where it is computed, in the direct, the inward and the outward engine; a
\* value exactly halfway rounds away from zero.
C5_RoundedHalfUpAtEachStep ==
    \A k \in DOMAIN log :
        /\ variant = "direct" => DirectRoundedAtEachStep(log[k], Opening(k))
        /\ variant = "inward" => InwardRoundedAtEachStep(log[k], Opening(k))
        /\ variant = "outward" => OutwardRoundedAtEachStep(log[k], Opening(k))

\* C6: every run ends in exactly one of two outcomes: a complete per-month
\* result set whose final loss amount was actually computed by the onerous
\* test or the loss lookup, or a fatal error; a run whose onerous test or loss
\* lookup failed never returns per-month results with a default loss of 0.
C6_CompleteResultsOrFatalError ==
    pc \in { "done", "error" } /\ variant \in { "direct", "inward", "outward" } =>
        \/ out.kind = "error"
        \/ out.kind = "results" /\ out.loss_computed

\* the term indices a run can ask a curve for: one per rolled month, and one
\* per future cash flow of the onerous test
RequiredTerms == 1 .. (2 * MaxMonths + 3)

\* the same rate table with an explicit rate of 0 written at every required
\* term the curves of the given months have no entry for
ExplicitZeros(discount_rates_map, months) ==
    [ m \in DOMAIN discount_rates_map \cup months |->
        LET curve == Get(discount_rates_map, m, EmptyMap)
        IN  [ t \in DOMAIN curve \cup RequiredTerms |-> Get(curve, t, 0) ] ]

ExplicitZeroTwin(c) ==
    [ c EXCEPT !.discount_rates_map =
                   ExplicitZeros(c.discount_rates_map, { c.ini_confirm.m, c.val_month }) ]

Finished == pc \in { "done", "error" }

\* C7: a run whose discount curve has no entry for a required term never
\* aborts for it and ends with the same per-month results and loss amount as
\* the run on the same contract whose curve holds an explicit rate of 0 at
\* that term, the locked curve with no entries at all included.
C7_MissingTermIsExplicitZero ==
    /\ (variant = "direct" /\ Finished) =>
           [ log |-> log, out |-> out ] = DirectRun(ExplicitZeroTwin(inp))
    /\ (variant = "inward" /\ Finished) =>
           [ log |-> log, out |-> out ] = InwardRun(ExplicitZeroTwin(inp), ctx.rounding)
    /\ (variant = "outward" /\ Finished) =>
           [ log |-> log, out |-> out ] = OutwardRun(ExplicitZeroTwin(inp), ctx.rounding)

\* the non-follow increment a post-cutover month computes before any floor:
\* the cumulative figure itself in 202501, the difference of the cumulative
\* figures of the month and of the month before afterwards
ComputedUnfolIncrement(month) ==
    LET unfol_by_month == FutureByMonth(inp.iacf_unfol_map)
        cur == Get(unfol_by_month, month, 0)
        prev == Get(unfol_by_month, month - 1, 0)
    IN  IF month = CutoffMonth + 1 THEN cur ELSE cur - prev

\* C8: in the direct rolling engine, in every month after 202412 (202501
\* included) the non-follow acquisition increment booked into the month's
\* acquisition cash flow is >= 0; a negative computed increment is replaced
\* by 0, leaves the amortization base unchanged and adds exactly one
\* diagnostic note to the month's log.
C8_NegativeIncrementFloored ==
    variant = "direct" =>
        \A k \in DOMAIN log :
            log[k].month > CutoffMonth =>
                /\ log[k].unfol_new >= 0
                /\ ComputedUnfolIncrement(log[k].month) < 0 =>
                       /\ log[k].unfol_new = 0
                       /\ log[k].unfol_base_add = 0
                       /\ log[k].warnings = 1

\* the share of a cohort not yet paid at the evaluation month, in 1/RateDen
CohortUnpaid(c) ==
    LET months_passed == c.evaluation_month - c.accident_month + 1
    IN  Max2(0, RateDen - PrefixSum(c.claim_pattern,
                                    Min2(months_passed, Len(c.claim_pattern))))

\* amount / (1 + rate), the rate in 1/RateDen
SinglePayment(amount, rate) == Frac(amount * RateDen, RateDen + rate)

\* C9: when the unpaid ratio of a cohort is zero at the evaluation month and
\* the remaining amount is not, the whole amount is one cash flow one period
\* after the evaluation month: the present value is amount / (1 + rate of the
\* first applicable term), term 1 of the evaluation curve and term
\* months_passed of the accident curve, and it is not 0.
C9_ExhaustedPatternSinglePayment ==
    ( /\ variant \in { "claims", "ledger" } /\ pc = "done"
      /\ inp.amount # 0 /\ CohortUnpaid(inp) = 0 ) =>
        LET months_passed == inp.evaluation_month - inp.accident_month + 1
            eval_curve == Get(inp.rates, inp.evaluation_month, EmptyMap)
            acc_curve == Get(inp.rates, inp.accident_month, EmptyMap)
        IN  /\ FracEq(out.pv1, SinglePayment(inp.amount, Get(eval_curve, 1, 0)))
            /\ FracEq(out.pv3, SinglePayment(inp.amount, Get(acc_curve, months_passed, 0)))
            /\ out.pv1.num # 0 /\ out.pv3.num # 0

\* the service ratio, the cumulative revenue target, the cumulative
\* amortization target (as fractions) and the two cumulative figures of a
\* logged month
Cumulatives(e) ==
    IF variant = "direct"
    THEN [ ratio |-> Frac(e.cumulative_proportion, ScaleUnits),
           revenue_target |->
               Frac((inp.premium_cny + e.cumulative_ifie) * e.cumulative_proportion,
                    ScaleUnits),
           amortization_target |->
               Frac(e.total_iacf_amt * e.cumulative_proportion, ScaleUnits),
           revenue |-> e.cumulative_premiums,
           amortization |-> e.cumulative_iacf ]
    ELSE [ ratio |-> e.amortized_ratio,
           revenue_target |->
               Frac((inp.premium - inp.commission - inp.brokerage + e.acc_ifie)
                      * e.amortized_ratio.num, e.amortized_ratio.den),
           amortization_target |->
               Frac(e.total_iacf_unfol * e.amortized_ratio.num, e.amortized_ratio.den),
           revenue |-> e.acc_insurance_revenue,
           amortization |-> e.acc_iacf_unfol_amortization ]

\* a < b, for fractions with positive denominators
FracLess(a, b) == a.num * b.den < b.num * a.den

\* C10 as stated: across the iterations of one rolling run, cumulative revenue
\* never decreases and cumulative cost amortization never decreases whenever
\* the service ratio does not decrease, for all inputs.
C10_CumulativesNeverDecrease ==
    variant \in { "direct", "inward" } =>
        \A k \in DOMAIN log :
            k > 1 /\ ~FracLess(Cumulatives(log[k]).ratio, Cumulatives(log[k - 1]).ratio) =>
                /\ Cumulatives(log[k]).revenue >= Cumulatives(log[k - 1]).revenue
                /\ Cumulatives(log[k]).amortization >= Cumulatives(log[k - 1]).amortization

\* C10 amended: the cumulative figures follow their targets.  In an iteration
\* whose cumulative revenue target, (total premium + cumulative interest) x
\* service ratio, is greater than the target of the iteration before,
\* cumulative revenue does not decrease; in an iteration whose cumulative
\* amortization target, amortization base x service ratio, is greater than
\* the target of the iteration before, cumulative amortization does not
\* decrease.
C10_CumulativesFollowTargets ==
    variant \in { "direct", "inward" } =>
        \A k \in DOMAIN log :
            k > 1 =>
                LET now == Cumulatives(log[k])
                    before == Cumulatives(log[k - 1])
                IN  /\ FracLess(before.revenue_target, now.revenue_target) =>
                           now.revenue >= before.revenue
                    /\ FracLess(before.amortization_target, now.amortization_target) =>
                           now.amortization >= before.amortization

\* a direct run and an inward run are in their second or later month, the
\* revenue target and the amortization target have both grown, and the
\* cumulative figures have grown with them
C10_TargetsGrew ==
    /\ variant \in { "direct", "inward" } /\ Len(log) > 1
    /\ LET now == Cumulatives(log[Len(log)])
           before == Cumulatives(log[Len(log) - 1])
       IN  /\ FracLess(before.revenue_target, now.revenue_target)
           /\ FracLess(before.amortization_target, now.amortization_target)
           /\ now.revenue > before.revenue
           /\ now.amortization > before.amortization

\* the month whose assumption set the onerous test is to use: the target
\* month, else the month before it, else none (0)
FallbackMonth(assumptions_map, v) ==
    IF AssumptionValid(assumptions_map, v) THEN v
    ELSE IF AssumptionValid(assumptions_map, v - 1) THEN v - 1
    ELSE 0

\* the same contract with the assumption set of month `use` stored at the
\* target month
WithAssumptionOf(c, use) ==
    [ c EXCEPT !.assumptions_map = (c.val_month :> c.assumptions_map[use]) @@ @ ]

\* the run has gone through its monthly rolling and has run the onerous test
OnerousTestRan ==
    \/ variant = "direct" /\ Finished /\ Len(log) > 0
    \/ variant = "inward" /\ pc = "done"

\* C11: in the onerous test, a target-month assumption set that is missing or
\* has a loss ratio of 0 is replaced by the set of the month before; when
\* that one is missing or has a zero loss ratio too, the run fails with an
\* error and returns no loss amount.  Direct and inward alike.
C11_AssumptionFallback ==
    OnerousTestRan =>
        LET use == FallbackMonth(inp.assumptions_map, inp.val_month)
            expected == IF variant = "direct"
                        THEN DirectFinish(WithAssumptionOf(inp, use), st)
                        ELSE InwardFinish(WithAssumptionOf(inp, use), st, ctx.rounding)
        IN  IF use = 0 THEN out.kind = "error"
            ELSE /\ out.kind = expected.kind
                 /\ out.kind = "results" =>
                        /\ out.loss_computed = expected.loss_computed
                        /\ out.lrc_loss_amt = expected.lrc_loss_amt

\* C12: when the initial-confirmation month is later than the target
\* evaluation month, every variant rejects the run with a fatal date-ordering
\* error (the failure of the timeline step) before any monthly iteration and
\* before the onerous test; no result row is produced.
C12_DateOrderingRejected ==
    ( /\ variant \in { "direct", "inward", "outward" } /\ Finished
      /\ inp.ini_confirm.m > inp.val_month ) =>
        /\ out.kind = "error"
        /\ out.reason = "timeline"
        /\ log = << >>

\* ---------------------------------------------------------------- C13
\* no acquisition cost at all: no recorded follow or non-follow amount other
\* than 0 and no legacy assumption cost
NoAcquisitionCosts ==
    /\ \A k \in DOMAIN inp.iacf_fol_map : inp.iacf_fol_map[k] = 0
    /\ \A k \in DOMAIN inp.iacf_unfol_map : inp.iacf_unfol_map[k] = 0
    /\ st.actuarial_iacf = 0

\* every locked rate of the run so far is 0
LockedRatesZero == \A k \in 1 .. Len(log) : log[k].dis_rate = 0

\* C13: in the direct rolling engine, when every locked rate is 0 and there
\* are no acquisition costs, after every iteration the cumulative interest is
\* 0, the cumulative revenue is the total premium times the service ratio
\* rounded half-up to the calculation scale, the cumulative amortization is 0
\* and the closing balance is the cumulative received premium minus the
\* cumulative revenue.
C13_ZeroRateNoCostRun ==
    (variant = "direct" /\ Len(log) > 0 /\ NoAcquisitionCosts /\ LockedRatesZero) =>
        \A k \in 1 .. Len(log) :
            /\ log[k].cumulative_ifie = 0
            /\ log[k].cumulative_premiums
                 = Quantize(inp.premium_cny * log[k].cumulative_proportion, ScaleUnits)
            /\ log[k].cumulative_iacf = 0
            /\ log[k].closing_balance
                 = log[k].cumulative_received_premiums - log[k].cumulative_premiums

\* C13 witness: a zero-rate direct run without acquisition costs that has
\* recognised revenue in two iterations and has received premium
C13_ZeroRateRunRecognised ==
    /\ variant = "direct" /\ Len(log) >= 2 /\ NoAcquisitionCosts /\ LockedRatesZero
    /\ log[1].current_premiums # 0 /\ log[2].current_premiums # 0
    /\ log[2].cumulative_received_premiums # 0

\* ---------------------------------------------------------------- C14
\* the loop of a direct or inward run was entered and ran to its end
RollingCompleted ==
    /\ variant \in { "direct", "inward" }
    /\ Finished
    /\ inp.ini_confirm.m <= inp.val_month
    /\ (out.kind = "results" \/ out.reason = "loss_test")

\* the months of the transitions performed, in the order performed
IteratedMonths == [k \in 1 .. Len(log) |-> log[k].month]

\* every calendar month from the initial confirm month to the target month
CalendarMonths(c) ==
    [k \in 1 .. (c.val_month - c.ini_confirm.m + 1) |-> c.ini_confirm.m + k - 1]

\* C14: a rolling run performs exactly one transition for every calendar month
\* from the initial confirm month through the target month inclusive, in
\* chronological order and each month once, also when the target month lies
\* after the month in which the coverage ends.
C14_OneTransitionPerMonth ==
    RollingCompleted => IteratedMonths = CalendarMonths(inp)

\* ---------------------------------------------------------------- C15
\* the same contract with the curve of every month other than the initial
\* confirm month replaced by another curve
OtherCurve == (1 :> 1) @@ (2 :> 1) @@ (3 :> 1)

OtherCurvesReplaced(c) ==
    [ c EXCEPT !.discount_rates_map =
        [ m \in (DOMAIN c.discount_rates_map \cup { c.val_month, c.val_month - 1 })
                 \ ({ c.ini_confirm.m } \ DOMAIN c.discount_rates_map) |->
            IF m = c.ini_confirm.m THEN c.discount_rates_map[m] ELSE OtherCurve ] ]

\* the accretion rate of a log entry
AccretionRate(e) == IF variant = "direct" THEN e.dis_rate ELSE e.monthly_rate

\* the rate the curve of the initial confirm month holds for the term of the
\* entry, 0 when it holds none
LockedCurveRate(e) ==
    Get(Get(inp.discount_rates_map, inp.ini_confirm.m, EmptyMap),
        e.month - inp.ini_confirm.m + 1, 0)

\* C15: in every iteration of a rolling run the accretion rate is read from the
\* curve of the initial confirm month, the same mapping in the first and the
\* last iteration, and the curve of no other month, the iterated month's
\* included, influences the per-month results.
C15_AccretionFromLockedCurve ==
    /\ variant \in { "direct", "inward", "outward" } =>
           \A k \in 1 .. Len(log) : AccretionRate(log[k]) = LockedCurveRate(log[k])
    /\ (variant = "direct" /\ Finished) => log = DirectRun(OtherCurvesReplaced(inp)).log
    /\ (variant = "inward" /\ Finished) =>
           log = InwardRun(OtherCurvesReplaced(inp), ctx.rounding).log
    /\ (variant = "outward" /\ Finished) =>
           log = OutwardRun(OtherCurvesReplaced(inp), ctx.rounding).log

\* C15 witness: a finished run of two or more iterations whose target month
\* has a curve that differs from the locked curve at the term of the last
\* iteration, and whose accretion rates were not all 0
C15_CurvesDifferAtLastTerm ==
    /\ variant \in { "direct", "inward", "outward" } /\ Finished /\ Len(log) >= 2
    /\ inp.val_month \in DOMAIN inp.discount_rates_map
    /\ Get(inp.discount_rates_map[inp.val_month],
           log[Len(log)].month - inp.ini_confirm.m + 1, 0)
         # LockedCurveRate(log[Len(log)])
    /\ \E k \in 1 .. Len(log) : AccretionRate(log[k]) # 0

\* ---------------------------------------------------------------- C16
\* the bucket of an amount recorded in month k: the initial confirm month when
\* k is at or before the cutover month '202412', its own month afterwards
Bucket(c, k) == IF k <= CutoffMonth THEN c.ini_confirm.m ELSE k

\* the amounts of a table that belong to the bucket of month m
BookedInto(map, c, m) == SumOver(map, {k \in DOMAIN map : Bucket(c, k) = m})

\* direct: the premium receipts and the recorded acquisition costs booked in
\* the iteration are those of the month's bucket; the non-follow figures after
\* the cutover are cumulative and enter as the month's increment
DirectBookedByCutover(e) ==
    /\ e.premium_cashflow = BookedInto(inp.paid_premiums_map, inp, e.month)
    /\ e.iacf_cashflow_current
         = BookedInto(inp.iacf_fol_map, inp, e.month)
           + (IF e.month = inp.ini_confirm.m
              THEN SumOver(inp.iacf_unfol_map,
                           {k \in DOMAIN inp.iacf_unfol_map : k <= CutoffMonth})
                   + (IF IsOldPolicy(inp.ini_confirm) THEN e.actuarial_iacf ELSE 0)
              ELSE 0)
           + e.unfol_new

\* inward: the acquisition cash flow of the iteration is that of the month's
\* bucket
InwardBookedByCutover(e) ==
    e.current_iacf_unfol_cash_flow = BookedInto(inp.no_iacf_cash_flow, inp, e.month)

\* C16: in the cash-flow timeline every premium and acquisition-cost amount
\* recorded at or before the cutover month 202412 is booked into the bucket of
\* the initial confirm month and every amount recorded after it into its own
\* month; this holds for premium receipts as well as for acquisition costs and
\* for the months strictly before the cutover as well as for the cutover month.
C16_BookedByCutover ==
    /\ variant = "direct" => \A k \in 1 .. Len(log) : DirectBookedByCutover(log[k])
    /\ variant = "inward" => \A k \in 1 .. Len(log) : InwardBookedByCutover(log[k])

\* ---------------------------------------------------------------- C17
\* the synthetic cost of a legacy contract: premium times the acquisition
\* expense ratio of the initial confirm month, rounded half-up; 0 for a
\* contract confirmed on or after 2024-01-01
LegacyCost ==
    IF DateLE(MkDate(Month(2024, 1), 1), inp.ini_confirm)
    THEN 0
    ELSE Quantize(inp.premium_cny
                    * inp.assumptions_map[inp.ini_confirm.m].acquisition_expense_ratio,
                  RateDen)

\* the actual costs recorded at or before '202412'
HistoricalCosts ==
    SumOver(inp.iacf_fol_map, {m \in DOMAIN inp.iacf_fol_map : m <= CutoffMonth})
    + SumOver(inp.iacf_unfol_map, {m \in DOMAIN inp.iacf_unfol_map : m <= CutoffMonth})

RECURSIVE BaseAdded(_)
\* the non-follow increments added to the amortization base up to iteration k
BaseAdded(k) == IF k = 0 THEN 0 ELSE BaseAdded(k - 1) + log[k].unfol_base_add

\* C17: in the direct rolling engine the synthetic cost of a legacy contract
\* (confirmed before 2024-01-01) is included once in the acquisition cash flow
\* of the first iteration and once in the amortization base, in addition to
\* the actual historical costs; it is in neither for a contract confirmed on or
\* after 2024-01-01, and no later iteration books it again.
C17_LegacyCostBookedOnce ==
    variant = "direct" =>
        \A k \in 1 .. Len(log) :
            /\ log[k].iacf_cashflow_current
                 = (IF k = 1 THEN HistoricalCosts + LegacyCost ELSE 0)
                   + (IF log[k].month > CutoffMonth
                      THEN Get(inp.iacf_fol_map, log[k].month, 0) ELSE 0)
                   + log[k].unfol_new
            /\ log[k].total_iacf_amt = HistoricalCosts + LegacyCost + BaseAdded(k)

\* C17 witness: a legacy contract with a synthetic cost other than 0 and actual
\* historical costs other than 0, rolled over two iterations or more
C17_LegacyContractRolled ==
    /\ variant = "direct" /\ Len(log) >= 2
    /\ inp.ini_confirm.m < Month(2024, 1)
    /\ LegacyCost # 0 /\ HistoricalCosts # 0

\* ---------------------------------------------------------------- C18
\* the first row of the result set with the key of row i
FirstOccurrence(df, i) ==
    CHOOSE j \in 1 .. i :
        /\ df[j].val_month = df[i].val_month /\ df[j].term_month = df[i].term_month
        /\ \A h \in 1 .. (j - 1) :
               ~(df[h].val_month = df[i].val_month /\ df[h].term_month = df[i].term_month)

\* C18: every discount-curve mapping is de-duplicated by (evaluation month,
\* term offset) and the first occurrence wins: the mapping a loader returns
\* holds, for every key of the rows it read, the rate of the first row with
\* that key, in the direct loader and in the reinsurance loaders alike.
C18_FirstOccurrenceWins ==
    (variant = "rates" /\ pc = "done") =>
        \A i \in 1 .. Len(out.fetched) :
            LET row == out.fetched[i]
            IN  /\ row.val_month \in DOMAIN out.rates_map
                /\ row.term_month \in DOMAIN out.rates_map[row.val_month]
                /\ out.rates_map[row.val_month][row.term_month]
                     = out.fetched[FirstOccurrence(out.fetched, i)].forward_disrate_value

\* ---------------------------------------------------------------- C19
\* the identifiers the claim names as standing for an absent endorsement
AbsentEndorsementTexts == { "", "NA", "N/A", "NULL" }

\* what a fetcher does with the empty identifier
LookedUpEmpty(fetcher) ==
    CASE fetcher = "get_measure_source_data" -> GetMeasureSourceData("")
      [] fetcher = "_get_certi_no_condition" -> GetCertiNoCondition("")
      [] fetcher = "get_reinsurance_outward_contracts" -> GetReinsuranceOutwardContracts("")
      [] fetcher = "get_latest_contract_data" -> GetLatestContractData("")

\* C19: for every lookup keyed by an endorsement identifier, the identifiers
\* "", "NA", "N/A" and "NULL" select the same absent-endorsement case, in every
\* data-fetch function: the lookup takes its absent-endorsement branch and
\* selects the rows it selects for the empty identifier.
C19_AbsentEndorsementTextsAgree ==
    (variant = "lookup" /\ pc = "done" /\ inp.certi_no \in AbsentEndorsementTexts) =>
        /\ out.absent
        /\ out.selected = LookedUpEmpty(out.fetcher).selected

\* ---------------------------------------------------------------- C20
\* a curve holding the rate 0 for every term a present value can ask for
ZeroRateCurve == [ t \in 1 .. (2 * PatternColumns + 2) |-> 0 ]

\* the cohort of the finished measurement has a non-zero amount and a positive
\* unpaid ratio
UnpaidCohort ==
    /\ variant = "claims" /\ pc = "done"
    /\ inp.amount # 0
    /\ SeqSum(RemainingPattern(inp.claim_pattern,
                               inp.evaluation_month - inp.accident_month + 1)) > 0

\* C20: in the incurred-claims present value a missing discount rate is
\* treated as 0 and is never fatal: for a non-zero amount and a positive unpaid
\* ratio, a curve with no entries yields the same present value as a curve
\* holding the rate 0 for every term, which is the undiscounted amount and
\* not 0.
C20_EmptyCurveIsZeroRateCurve ==
    /\ (UnpaidCohort /\ Get(inp.rates, inp.evaluation_month, EmptyMap) = EmptyMap) =>
           /\ out.pv1 = CalculateUnsettledPv(inp.amount, inp.claim_pattern, ZeroRateCurve,
                            inp.accident_month, inp.evaluation_month, TRUE)
           /\ FracEq(out.pv1, Frac(inp.amount, 1))
    /\ (UnpaidCohort /\ Get(inp.rates, inp.accident_month, EmptyMap) = EmptyMap) =>
           /\ out.pv3 = CalculateUnsettledPv(inp.amount, inp.claim_pattern, ZeroRateCurve,
                            inp.accident_month, inp.evaluation_month, FALSE)
           /\ FracEq(out.pv3, Frac(inp.amount, 1))

\* ---------------------------------------------------------------- C21
\* the term index at which an iteration looked up the locked rate
TermIndex(e) == IF variant = "outward" THEN e.term_month ELSE e.month_counter

\* C21: in the k-th iteration of a rolling run the locked rate is looked up at
\* term index k, the count of iterations performed, in all three variants;
\* the first iterated month uses term index 1 also when the run starts in a
\* month later than the original initial confirm month.
C21_TermIndexCountsIterations ==
    variant \in { "direct", "inward", "outward" } =>
        \A k \in 1 .. Len(log) :
            /\ TermIndex(log[k]) = k
            /\ AccretionRate(log[k])
                 = Get(Get(inp.discount_rates_map, inp.ini_confirm.m, EmptyMap), k, 0)

\* ---------------------------------------------------------------- C22
RECURSIVE PositiveIncrements(_)
\* the strictly positive non-follow increments of the post-cutover months
\* among the first k iterations
PositiveIncrements(k) ==
    IF k = 0 THEN 0
    ELSE PositiveIncrements(k - 1)
         + (IF log[k].month > CutoffMonth
            THEN Max2(0, ComputedUnfolIncrement(log[k].month)) ELSE 0)

\* the same contract without its follow costs recorded after the cutover
WithoutFutureFollowCosts(c) ==
    [ c EXCEPT !.iacf_fol_map =
        [ m \in { x \in DOMAIN c.iacf_fol_map : x <= CutoffMonth } |-> c.iacf_fol_map[m] ] ]

\* C22: in the direct rolling engine, after every iteration the amortization
\* base is the sum of the acquisition costs recorded at or before 202412, plus
\* the legacy assumption cost if any, plus the strictly positive non-follow
\* increments of the post-cutover months iterated so far; it never decreases
\* from one iteration to the next and follow costs after the cutover never
\* change it.
C22_AmortizationBase ==
    variant = "direct" =>
        /\ \A k \in 1 .. Len(log) :
               /\ log[k].total_iacf_amt
                    = HistoricalCosts + LegacyCost + PositiveIncrements(k)
               /\ k > 1 => log[k].total_iacf_amt >= log[k - 1].total_iacf_amt
        /\ Finished =>
               LET twin == DirectRun(WithoutFutureFollowCosts(inp)).log
               IN  /\ Len(twin) = Len(log)
                   /\ \A k \in 1 .. Len(log) :
                          twin[k].total_iacf_amt = log[k].total_iacf_amt

\* C22 witness: a finished run with follow costs after the cutover whose base
\* has grown by a positive non-follow increment and has passed a month whose
\* computed increment was negative
C22_BaseGrewPastNegativeIncrement ==
    /\ variant = "direct" /\ Finished /\ Len(log) >= 2
    /\ \E m \in DOMAIN inp.iacf_fol_map : m > CutoffMonth /\ inp.iacf_fol_map[m] # 0
    /\ PositiveIncrements(Len(log)) > 0
    /\ \E k \in 1 .. Len(log) :
           log[k].month > CutoffMonth /\ ComputedUnfolIncrement(log[k].month) < 0
    /\ HistoricalCosts # 0

\* ---------------------------------------------------------------- C23
\* the calendar days of the coverage period [start_date, end_date] that fall
\* on or before the last day of month m
CoverageDaysThrough(c, m) ==
    LET last == DateMin(MonthEnd(m), c.end_date)
    IN  IF DateLE(c.start_date, last) THEN DayOrd(last) - DayOrd(c.start_date) + 1
        ELSE 0

\* C23: in the direct rolling engine the cumulative served days after the
\* iteration of month m are the calendar days of the coverage period that fall
\* on or before the last day of m, also for a contract whose coverage starts
\* before the first day of its initial confirm month; with term days equal to
\* the coverage days the service ratio is exactly 1 once m has reached the
\* month of the coverage end, and it never exceeds 1.
C23_ServedDaysAreCoverageDays ==
    variant = "direct" =>
        \A k \in 1 .. Len(log) :
            /\ log[k].served_days = CoverageDaysThrough(inp, log[k].month)
            /\ log[k].cumulative_proportion <= ScaleUnits
            /\ log[k].month >= inp.end_date.m => log[k].cumulative_proportion = ScaleUnits

\* ---------------------------------------------------------------- C24
\* the record of the onerous test of the finished run: its claim amount, its
\* remaining months and, where _get_pv_loss returned, its present value
PvLossTest == IF variant = "direct" THEN DirectLossTest(inp, st) ELSE out.test

\* the run has called _get_pv_loss with a non-zero amount and n >= 1
PvLossCalled ==
    /\ variant \in { "direct", "inward" } /\ Finished
    /\ (out.kind = "results" \/ out.reason = "loss_test")
    /\ "future_loss" \in DOMAIN PvLossTest
    /\ PvLossTest.future_loss # 0 /\ PvLossTest.remaining_months >= 1

\* a_i = round10(round10(amount / n) x w_i)
PerWeightAmount(amount, n, w, i) == Quantize(Quantize(amount, n) * w[i], RateDen)

RECURSIVE WindowSum(_, _, _, _, _)
\* the sum of a_i over the i <= upto with 1 <= i <= L and 0 <= j - (i - 1) <= n - 1
WindowSum(amount, n, w, j, upto) ==
    IF upto = 0 THEN 0
    ELSE WindowSum(amount, n, w, j, upto - 1)
         + (IF 0 <= j - (upto - 1) /\ j - (upto - 1) <= n - 1
            THEN PerWeightAmount(amount, n, w, upto) ELSE 0)

RECURSIVE SeriesSum(_, _)
SeriesSum(series, upto) ==
    IF upto = 0 THEN 0 ELSE SeriesSum(series, upto - 1) + series[upto]

\* C24: for a non-zero amount, n >= 1 remaining months and a pattern w of
\* length L, _get_pv_loss distributes the claim cost as the convolution of the
\* per-weight amounts a_i with a uniform window of n months: the series has
\* length L + n - 1, its entry j (0-based) is the sum of a_i over all i with
\* 0 <= i < L and 0 <= j - i <= n - 1, the entries sum to n x (sum of a_i),
\* and with all rates 0 the returned present value equals that sum.
C24_PvLossIsConvolution ==
    PvLossCalled =>
        LET t == PvLossTest
            amount == t.future_loss
            n == t.remaining_months
            w == inp.claim_factors
            L == Len(w)
            series == LossCashFlows(amount, n, w)
            sum_a == SeriesSum([i \in 1 .. L |-> PerWeightAmount(amount, n, w, i)], L)
            curve == Get(inp.discount_rates_map, inp.val_month, EmptyMap)
        IN  /\ Len(series) = L + n - 1
            /\ \A j \in 0 .. (L + n - 2) : series[j + 1] = WindowSum(amount, n, w, j, L)
            /\ SeriesSum(series, Len(series)) = n * sum_a
            /\ (\A term \in DOMAIN curve : curve[term] = 0) =>
                   /\ ~t.raised
                   /\ t.pv_future_compensation = n * sum_a

\* ---------------------------------------------------------------- C25
\* months-elapsed e of the incurred-claims run: the development months whose
\* pattern weights are treated as already paid
MonthsElapsed == inp.evaluation_month - inp.accident_month + 1

\* the present value of the run's future cash flows when the p-th of them is
\* divided by the product of (1 + rate(t)) over the terms t = start ..
\* start + p - 1 of the curve
PvDiscountedFromTerm(curve, start) ==
    IF variant = "claims"
    THEN LET remaining == RemainingPattern(inp.claim_pattern, MonthsElapsed)
         IN  IF inp.claim_pattern = << >> \/ DOMAIN curve = {} \/ SeqSum(remaining) = 0
             THEN Frac(0, 1)
             ELSE UnsettledPvSum(inp.amount, remaining, curve, start, Len(remaining))
    ELSE IF UnpaidRatio(inp.claim_pattern, MonthsElapsed) = 0
         THEN LegacyDiscount(inp.amount, curve, start, 1)
         ELSE LegacyWeighted(inp.amount, inp.claim_pattern, MonthsElapsed, curve,
                             start, PatternColumns)

\* C25: with months-elapsed e, the p-th future cash flow (p >= 1) is
\* discounted by the product of (1 + rate(t)) over the terms t = 1..p of the
\* evaluation-month curve under the current regime (PV1) and over the terms
\* t = e+1..e+p of the accident-month curve under the accident regime (PV3).
C25_DiscountTerms ==
    variant \in { "claims", "ledger" } /\ pc = "done" /\ out.computed =>
        /\ FracEq(out.pv1,
                  PvDiscountedFromTerm(Get(inp.rates, inp.evaluation_month, EmptyMap), 1))
        /\ FracEq(out.pv3,
                  PvDiscountedFromTerm(Get(inp.rates, inp.accident_month, EmptyMap),
                                       MonthsElapsed + 1))

\* ---------------------------------------------------------------- C26
\* unpaid ratio = 1 - sum of the pattern weights up to months-elapsed, as a
\* count of 1/RateDen
UnpaidAfterElapsed ==
    RateDen - PrefixSum(inp.claim_pattern, Min2(MonthsElapsed, Len(inp.claim_pattern)))

\* the run has taken the weighted branch: the core calculator has passed its
\* early returns, the ledger script has a non-zero unpaid ratio
WeightedBranch ==
    /\ variant \in { "claims", "ledger" } /\ pc = "done" /\ out.computed
    /\ variant = "claims" =>
           /\ inp.claim_pattern # << >>
           /\ DOMAIN Get(inp.rates, inp.evaluation_month, EmptyMap) # {}
           /\ SeqSum(RemainingPattern(inp.claim_pattern, MonthsElapsed)) # 0
    /\ variant = "ledger" => UnpaidRatio(inp.claim_pattern, MonthsElapsed) # 0

\* the pattern weights are not negative and sum to at most 1
WeightsAtMostOne ==
    /\ \A i \in DOMAIN inp.claim_pattern : inp.claim_pattern[i] >= 0
    /\ SeqSum(inp.claim_pattern) <= RateDen

RECURSIVE ProportionalPv(_, _)
\* the present value on the evaluation-month curve of the first p future cash
\* flows, each being remaining amount x (pattern weight / unpaid ratio)
ProportionalPv(curve, p) ==
    IF p = 0 THEN Frac(0, 1)
    ELSE FracAdd(ProportionalPv(curve, p - 1),
                 Frac(inp.amount * inp.claim_pattern[MonthsElapsed + p] * DiscountDen(p),
                      UnpaidAfterElapsed * TermDiscountNum(curve, 1, p)))

\* the rates of the curve are all 0: nothing is discounted
ZeroCurve(curve) == \A term \in DOMAIN curve : curve[term] = 0

\* C26: in the weighted branch of the incurred-claims engine each future
\* development month's cash flow is remaining amount x (that month's pattern
\* weight / unpaid ratio), with unpaid ratio = 1 - sum of the pattern weights
\* up to months-elapsed, and the cash flows of all future months sum to the
\* remaining amount, for every pattern whose weights sum to at most 1.
C26_ProportionalCashFlows ==
    WeightedBranch /\ WeightsAtMostOne =>
        LET curve == Get(inp.rates, inp.evaluation_month, EmptyMap)
            future == Max2(0, Len(inp.claim_pattern) - MonthsElapsed)
        IN  /\ UnpaidAfterElapsed > 0
            /\ (\A term \in DOMAIN curve : curve[term] >= 0) =>
                   FracEq(out.pv1, ProportionalPv(curve, future))
            /\ ZeroCurve(curve) => FracEq(out.pv1, Frac(inp.amount, 1))

\* ---------------------------------------------------------------- C27
RECURSIVE BookedAcquisitionCashFlow(_)
\* cumulative acquisition cash flow booked in the first k iterations
BookedAcquisitionCashFlow(k) ==
    IF k = 0 THEN 0 ELSE BookedAcquisitionCashFlow(k - 1) + log[k].iacf_cashflow_current

\* C27: in the direct rolling engine, after every iteration the closing
\* balance equals cumulative received premium - cumulative acquisition cash
\* flow booked so far + cumulative interest - cumulative revenue + cumulative
\* amortization, and the opening balance of every iteration is exactly the
\* closing balance of the previous one (0 for the first).
C27_ClosingBalanceTelescopes ==
    variant = "direct" =>
        \A k \in 1 .. Len(log) :
            /\ log[k].closing_balance =
                   log[k].cumulative_received_premiums - BookedAcquisitionCashFlow(k)
                   + log[k].cumulative_ifie - log[k].cumulative_premiums
                   + log[k].cumulative_iacf
            /\ log[k].prev_opening_balance =
                   IF k = 1 THEN 0 ELSE log[k - 1].closing_balance
            /\ log[k].opening_balance = log[k].closing_balance

\* C27 witness: a finished run of at least three iterations with interest,
\* received premium and acquisition cash flow, whose balance was not 0 when
\* the last iteration opened
C27_BalanceCarriedOverMonths ==
    /\ variant = "direct" /\ Finished /\ Len(log) >= 3
    /\ log[Len(log)].prev_opening_balance # 0
    /\ log[Len(log)].cumulative_ifie # 0
    /\ log[Len(log)].cumulative_received_premiums # 0
    /\ BookedAcquisitionCashFlow(Len(log)) # 0
    /\ \E k \in 2 .. Len(log) : log[k].iacf_cashflow_current # 0

\* ---------------------------------------------------------------- C28
\* C28: in the direct rolling engine the liability runs off: in any iteration
\* where the service ratio equals 1 and the cumulative received premium
\* equals the total premium, the closing balance is exactly 0, whatever
\* acquisition costs (historical, legacy assumption, post-cutover follow and
\* non-follow) and locked rates the contract had.
C28_LiabilityRunsOff ==
    variant = "direct" =>
        \A k \in 1 .. Len(log) :
            /\ log[k].cumulative_proportion = ScaleUnits
            /\ log[k].cumulative_received_premiums = inp.premium_cny
            => log[k].closing_balance = 0

\* ---------------------------------------------------------------- C29
\* the post-cutover months that have an entry in the cumulative non-follow map
UnfolEntryMonths == { m \in DOMAIN inp.iacf_unfol_map : m > CutoffMonth }

\* the cumulative figures never decrease over the months that have an entry
UnfolCumulativeNeverDecreases ==
    \A a \in UnfolEntryMonths, b \in UnfolEntryMonths :
        a <= b => inp.iacf_unfol_map[a] <= inp.iacf_unfol_map[b]

\* the latest cumulative figure recorded at or before month m, 0 before the
\* first entry
LatestUnfolCumulative(m) ==
    LET upto == { a \in UnfolEntryMonths : a <= m }
    IN  IF upto = {} THEN 0
        ELSE inp.iacf_unfol_map[CHOOSE a \in upto : \A b \in upto : b <= a]

RECURSIVE BookedUnfolIncrements(_)
\* the non-follow increments booked in the first k iterations
BookedUnfolIncrements(k) ==
    IF k = 0 THEN 0 ELSE BookedUnfolIncrements(k - 1) + log[k].unfol_new

\* C29: in the direct rolling engine, for a contract whose post-cutover
\* non-follow cumulative figures never decrease over the months that have an
\* entry, the sum of the non-follow increments booked from 202501 through
\* month m equals the latest cumulative figure recorded at or before m and
\* never exceeds it, also when an iterated month has no entry in the map.
C29_IncrementsSumToCumulative ==
    variant = "direct" /\ UnfolCumulativeNeverDecreases =>
        \A k \in 1 .. Len(log) :
            log[k].month > CutoffMonth =>
                BookedUnfolIncrements(k) = LatestUnfolCumulative(log[k].month)

\* ---------------------------------------------------------------- C30
\* BEL + RA totals of the finished run under the two regimes
CurrentPv1 == FracAdd(out.pv1, out.pv1_ra)

CurrentPv3 == FracAdd(out.pv3, out.pv3_ra)

\* the prior-period figures the run has read: 0 where there was no row
PriorResult ==
    IF inp.last.found THEN inp.last
    ELSE [ found |-> FALSE, current |-> Frac(0, 1), accident |-> Frac(0, 1),
           amt |-> Frac(0, 1) ]

====
